---- MODULE Spec2Model ----
(***************************************************************************)
(* Technical-analysis dashboard: the golden-cross backtest (backtest.py)   *)
(* and the signal detector (signals.py).                                   *)
(*                                                                         *)
(* Floats are exact rationals <<n, d>> in lowest terms with d > 0; the     *)
(* not-a-number marker is <<0, 0>>.  Every comparison with NaN is false,   *)
(* as in IEEE arithmetic and pandas.  Dates are 1-based row numbers.       *)
(* Python's None is the empty tuple and a present value x is <<x>>.        *)
(***************************************************************************)
EXTENDS Integers, Sequences, FiniteSets

\* ---------------------------------------------------------------- bounds
\* The rolling windows and the minimum history are 25, 75 and 100 bars in
\* backtest.py (lines 72, 73, 97); they are scaled down here, keeping
\* ShortWindow < LongWindow < MinBars - 1 <  MaxBars.
ShortWindow == 2
LongWindow == 3
MinBars == 5
MaxBars == 7

\* Close prices a fetched bar can carry (positive, as market prices are).
Prices == {1, 2, 3}

\* ------------------------------------------------------------ arithmetic
None == <<>>
Some(x) == <<x>>

NaN == <<0, 0>>
IsNaN(x) == x[2] = 0

Abs(n) == IF n < 0 THEN -n ELSE n

RECURSIVE Gcd(_, _)
Gcd(a, b) == IF b = 0 THEN a ELSE Gcd(b, a % b)

Rat(n, d) ==
    IF d = 0 THEN NaN
    ELSE LET g == Gcd(Abs(n), Abs(d))
             s == IF d < 0 THEN -1 ELSE 1
         IN  <<(s * n) \div g, (s * d) \div g>>

R(n) == <<n, 1>>

RAdd(x, y) == IF IsNaN(x) \/ IsNaN(y) THEN NaN
              ELSE Rat(x[1] * y[2] + y[1] * x[2], x[2] * y[2])
RSub(x, y) == IF IsNaN(x) \/ IsNaN(y) THEN NaN
              ELSE Rat(x[1] * y[2] - y[1] * x[2], x[2] * y[2])
RMul(x, y) == IF IsNaN(x) \/ IsNaN(y) THEN NaN
              ELSE Rat(x[1] * y[1], x[2] * y[2])
\* Division by zero does not arise for the positive prices of a fetched series.
RDiv(x, y) == IF IsNaN(x) \/ IsNaN(y) THEN NaN
              ELSE Rat(x[1] * y[2], x[2] * y[1])

Gt(x, y) == ~IsNaN(x) /\ ~IsNaN(y) /\ x[1] * y[2] > y[1] * x[2]
Ge(x, y) == ~IsNaN(x) /\ ~IsNaN(y) /\ x[1] * y[2] >= y[1] * x[2]
Lt(x, y) == ~IsNaN(x) /\ ~IsNaN(y) /\ x[1] * y[2] < y[1] * x[2]
Le(x, y) == ~IsNaN(x) /\ ~IsNaN(y) /\ x[1] * y[2] =< y[1] * x[2]

RECURSIVE SumRange(_, _, _)
SumRange(s, lo, hi) == IF lo > hi THEN R(0) ELSE RAdd(s[lo], SumRange(s, lo + 1, hi))

Last(s) == s[Len(s)]

\* ------------------------------------------------------ pandas primitives
\* A rolling mean that averages whatever part of the window exists.
RollingMean_Partial(data, window) ==
    [i \in 1..Len(data) |->
        IF i < window THEN RDiv(SumRange(data, 1, i), R(i))
        ELSE RDiv(SumRange(data, i - window + 1, i), R(window))]

\* A centred rolling mean: the window of row i reaches one row past it.
RollingMean_Centered(data, window) ==
    [i \in 1..Len(data) |->
        IF i < window - 1 \/ i + 1 > Len(data) THEN NaN
        ELSE RDiv(SumRange(data, i - window + 2, i + 1), R(window))]

\* Series.rolling(window).mean(): NaN until the window is full.
RollingMean(data, window) ==
    [i \in 1..Len(data) |->
        IF i < window THEN NaN
        ELSE RDiv(SumRange(data, i - window + 1, i), R(window))]

\* Series.shift(1): the previous row's value, NaN at the first row.
Shift1(col) == [i \in 1..Len(col) |-> IF i = 1 THEN NaN ELSE col[i - 1]]

\* ---------------------------------------------------------- indicators.py
\* Series.diff(): NaN at the first row
Diff(data) == [i \in 1..Len(data) |-> IF i = 1 THEN NaN ELSE RSub(data[i], data[i - 1])]

\* Series.rolling(window).std(): the sample variance of the window (NaN until
\* the window is full, and for a window of one row); the deviation is its
\* square root, kept as the radicand.
RollingVar(data, window) ==
    LET squares == [i \in 1..Len(data) |-> RMul(data[i], data[i])]
    IN  [i \in 1..Len(data) |->
            IF i < window \/ window = 1 THEN NaN
            ELSE LET sum   == SumRange(data, i - window + 1, i)
                     sumsq == SumRange(squares, i - window + 1, i)
                 IN  RDiv(RSub(sumsq, RDiv(RMul(sum, sum), R(window))), R(window - 1))]

\* a + b * sqrt(v); undefined when a part is
Surd(a, b, v) == [a |-> a, b |-> b, v |-> v]
SurdNaN(x) == IsNaN(x.a) \/ IsNaN(x.b) \/ IsNaN(x.v)

calculate_sma(data, window) == RollingMean(data, window)

\* data.ewm(span=window, adjust=False).mean(): y[0] = x[0],
\* y[i] = (1 - alpha) * y[i-1] + alpha * x[i] with alpha = 2 / (window + 1)
RECURSIVE EwmAt(_, _, _)
EwmAt(data, window, i) ==
    IF i = 1 THEN data[1]
    ELSE LET alpha == Rat(2, window + 1)
         IN  RAdd(RMul(RSub(R(1), alpha), EwmAt(data, window, i - 1)), RMul(alpha, data[i]))

calculate_ema(data, window) == [i \in 1..Len(data) |-> EwmAt(data, window, i)]

\* 100 - 100 / (1 + avg_gain / avg_loss) in float arithmetic: x / 0 is inf for
\* x > 0, giving 100, and 0 / 0 is NaN
RsiValue(avg_gain, avg_loss) ==
    IF IsNaN(avg_gain) \/ IsNaN(avg_loss) THEN NaN
    ELSE IF avg_loss = R(0) THEN (IF avg_gain = R(0) THEN NaN ELSE R(100))
    ELSE RSub(R(100), RDiv(R(100), RAdd(R(1), RDiv(avg_gain, avg_loss))))

\* delta.where(delta > 0, 0.0) and (-delta).where(delta < 0, 0.0): the first
\* row, whose delta is NaN, becomes 0.0
calculate_rsi(data, window) ==
    LET delta    == Diff(data)
        gain     == [i \in 1..Len(data) |-> IF Gt(delta[i], R(0)) THEN delta[i] ELSE R(0)]
        loss     == [i \in 1..Len(data) |->
                        IF Lt(delta[i], R(0)) THEN RSub(R(0), delta[i]) ELSE R(0)]
        avg_gain == RollingMean(gain, window)
        avg_loss == RollingMean(loss, window)
    IN  [i \in 1..Len(data) |-> RsiValue(avg_gain[i], avg_loss[i])]

calculate_bollinger_bands(data, window, num_std) ==
    LET middle == calculate_sma(data, window)
        var    == RollingVar(data, window)
    IN  [middle    |-> middle,
         upper     |-> [i \in 1..Len(data) |-> Surd(middle[i], num_std, var[i])],
         lower     |-> [i \in 1..Len(data) |-> Surd(middle[i], RSub(R(0), num_std), var[i])],
         bandwidth |-> [i \in 1..Len(data) |->
                           Surd(R(0),
                                RMul(RDiv(RMul(R(2), num_std), middle[i]), R(100)),
                                var[i])]]

\* calculate_macd: the difference of two EMAs, its EMA, and their difference
calculate_macd(data, fast, slow, signal) ==
    LET ema_fast    == calculate_ema(data, fast)
        ema_slow    == calculate_ema(data, slow)
        macd_line   == [i \in 1..Len(data) |-> RSub(ema_fast[i], ema_slow[i])]
        signal_line == calculate_ema(macd_line, signal)
    IN  [macd      |-> macd_line,
         signal    |-> signal_line,
         histogram |-> [i \in 1..Len(data) |-> RSub(macd_line[i], signal_line[i])]]

\* The windows of add_all_indicators (5, 25, 75, 200; RSI 14; MACD 12, 26, 9;
\* Bollinger 20), scaled with the bounds: SMA_25 and SMA_75 keep the windows
\* of the backtest, the others take the nearest scaled window.
Sma5Window == ShortWindow - 1
Sma25Window == ShortWindow
Sma75Window == LongWindow
Sma200Window == LongWindow + 1
RsiWindow == ShortWindow
MacdFast == ShortWindow
MacdSlow == LongWindow
MacdSignal == ShortWindow
BbWindow == ShortWindow

IndicatorColumns ==
    {"SMA_5", "SMA_25", "SMA_75", "SMA_200", "RSI", "MACD", "MACD_Signal",
     "MACD_Histogram", "BB_Middle", "BB_Upper", "BB_Lower", "BB_Bandwidth"}

\* add_all_indicators: the columns added to a copy of the frame, from Close
add_all_indicators(close) ==
    LET macd == calculate_macd(close, MacdFast, MacdSlow, MacdSignal)
        bb   == calculate_bollinger_bands(close, BbWindow, R(2))
    IN  [SMA_5          |-> calculate_sma(close, Sma5Window),
         SMA_25         |-> calculate_sma(close, Sma25Window),
         SMA_75         |-> calculate_sma(close, Sma75Window),
         SMA_200        |-> calculate_sma(close, Sma200Window),
         RSI            |-> calculate_rsi(close, RsiWindow),
         MACD           |-> macd.macd,
         MACD_Signal    |-> macd.signal,
         MACD_Histogram |-> macd.histogram,
         BB_Middle      |-> bb.middle,
         BB_Upper       |-> bb.upper,
         BB_Lower       |-> bb.lower,
         BB_Bandwidth   |-> bb.bandwidth]

\* ---------------------------------------------------------- backtest.py
\* Trade.return_pct; None while exit_price is None.
ReturnPct(t) ==
    IF t.exit_price = None THEN None
    ELSE Some(RMul(RDiv(RSub(t.exit_price[1], t.entry_price), t.entry_price), R(100)))

NewTrade(date, price) ==
    [entry_date |-> date, entry_price |-> price, exit_date |-> None, exit_price |-> None]

\* calculate_golden_cross_signals, SMA and cross columns of a Close series.
GoldenCrossColumn(sma_s, sma_l) ==
    [i \in 1..Len(sma_s) |->
        Gt(sma_s[i], sma_l[i]) /\ Le(Shift1(sma_s)[i], Shift1(sma_l)[i])]

DeadCrossColumn(sma_s, sma_l) ==
    [i \in 1..Len(sma_s) |->
        Lt(sma_s[i], sma_l[i]) /\ Ge(Shift1(sma_s)[i], Shift1(sma_l)[i])]

calculate_golden_cross_signals(close) ==
    LET sma_s == RollingMean(close, ShortWindow)
        sma_l == RollingMean(close, LongWindow)
    IN  [Close        |-> close,
         SMA_25       |-> sma_s,
         SMA_75       |-> sma_l,
         golden_cross |-> GoldenCrossColumn(sma_s, sma_l),
         dead_cross   |-> DeadCrossColumn(sma_s, sma_l)]

\* The simulation state of run_backtest_single: the open trade, the ledger
\* and the equity curve.
SimStart == [current_trade |-> None, trades |-> <<>>, equity_curve |-> <<R(100)>>]

CloseTrade(t, date, price) == [t EXCEPT !.exit_date = Some(date), !.exit_price = Some(price)]

\* equity_curve.append(equity_curve[-1] * (1 + ret)), ret = return_pct / 100
Compound(equity_curve, t) ==
    Append(equity_curve,
           RMul(Last(equity_curve), RAdd(R(1), RDiv(ReturnPct(t)[1], R(100)))))

\* One iteration of the loop over df.iterrows().
LoopBody_Reopen(sim, df, i) ==
    IF IsNaN(df.SMA_25[i]) \/ IsNaN(df.SMA_75[i]) THEN sim
    ELSE IF df.golden_cross[i]
         THEN [sim EXCEPT !.current_trade = Some(NewTrade(i, df.Close[i]))]
    ELSE IF df.dead_cross[i] /\ sim.current_trade # None
         THEN LET t == CloseTrade(sim.current_trade[1], i, df.Close[i])
              IN  [current_trade |-> None,
                   trades        |-> Append(sim.trades, t),
                   equity_curve  |-> Compound(sim.equity_curve, t)]
    ELSE sim

LoopBody_StaleExit(sim, df, i) ==
    IF IsNaN(df.SMA_25[i]) \/ IsNaN(df.SMA_75[i]) THEN sim
    ELSE IF df.golden_cross[i] /\ sim.current_trade = None
         THEN [sim EXCEPT !.current_trade = Some(NewTrade(i, df.Close[i]))]
    ELSE IF df.dead_cross[i] /\ sim.current_trade # None
         THEN LET t == CloseTrade(sim.current_trade[1], i, df.Close[i - 1])
              IN  [current_trade |-> None,
                   trades        |-> Append(sim.trades, t),
                   equity_curve  |-> Compound(sim.equity_curve, t)]
    ELSE sim

\* a dead cross closes the trade and opens the next one on the same bar
LoopBody_Reverse(sim, df, i) ==
    IF IsNaN(df.SMA_25[i]) \/ IsNaN(df.SMA_75[i]) THEN sim
    ELSE IF df.golden_cross[i] /\ sim.current_trade = None
         THEN [sim EXCEPT !.current_trade = Some(NewTrade(i, df.Close[i]))]
    ELSE IF df.dead_cross[i] /\ sim.current_trade # None
         THEN LET t == CloseTrade(sim.current_trade[1], i, df.Close[i])
              IN  [current_trade |-> Some(NewTrade(i, df.Close[i])),
                   trades        |-> Append(sim.trades, t),
                   equity_curve  |-> Compound(sim.equity_curve, t)]
    ELSE sim

LoopBody(sim, df, i) ==
    IF IsNaN(df.SMA_25[i]) \/ IsNaN(df.SMA_75[i]) THEN sim
    ELSE IF df.golden_cross[i] /\ sim.current_trade = None
         THEN [sim EXCEPT !.current_trade = Some(NewTrade(i, df.Close[i]))]
    ELSE IF df.dead_cross[i] /\ sim.current_trade # None
         THEN LET t == CloseTrade(sim.current_trade[1], i, df.Close[i])
              IN  [current_trade |-> None,
                   trades        |-> Append(sim.trades, t),
                   equity_curve  |-> Compound(sim.equity_curve, t)]
    ELSE sim

\* "Close open trade at last price": the trade object is completed in place
\* and current_trade keeps referring to it.
CloseOpenTrade_Drop(sim, df) == sim

CloseOpenTrade(sim, df) ==
    IF sim.current_trade # None
    THEN LET t == CloseTrade(sim.current_trade[1], Len(df.Close), Last(df.Close))
         IN  [current_trade |-> Some(t),
              trades        |-> Append(sim.trades, t),
              equity_curve  |-> Compound(sim.equity_curve, t)]
    ELSE sim

\* pd.Series(equity_curve).expanding().max()
RECURSIVE ExpandingMax(_)
ExpandingMax(s) ==
    IF Len(s) = 1 THEN s
    ELSE LET init == SubSeq(s, 1, Len(s) - 1)
             m    == ExpandingMax(init)
         IN  Append(m, IF Gt(Last(s), Last(m)) THEN Last(s) ELSE Last(m))

\* Series.min()
RECURSIVE SeqMin(_)
SeqMin(s) ==
    IF Len(s) = 1 THEN s[1]
    ELSE LET m == SeqMin(SubSeq(s, 1, Len(s) - 1))
         IN  IF Lt(Last(s), m) THEN Last(s) ELSE m

SelectIdx(s, P(_)) == {n \in 1..Len(s) : P(s[n])}

Losing_Strict(returns) == SelectIdx(returns, LAMBDA r : Lt(r, R(0)))

Winning(returns) == SelectIdx(returns, LAMBDA r : Gt(r, R(0)))
Losing(returns) == SelectIdx(returns, LAMBDA r : Le(r, R(0)))

\* an empty ledger reported as a BacktestResult with zero trades
Metrics_ZeroTrades(ticker, sim) ==
    Some([ticker |-> ticker, total_trades |-> Len(sim.trades), winning_trades |-> 0,
          losing_trades |-> 0, win_rate |-> R(0), avg_return |-> R(0),
          total_return |-> R(0), max_drawdown |-> R(0), trades |-> sim.trades])

\* "Calculate metrics" and the BacktestResult; None when the ledger is empty.
Metrics(ticker, sim) ==
    IF sim.trades = <<>> THEN None
    ELSE LET trades   == sim.trades
             returns  == [n \in 1..Len(trades) |-> ReturnPct(trades[n])[1]]
             winning  == Winning(returns)
             losing   == Losing(returns)
             equity   == sim.equity_curve
             rolling  == ExpandingMax(equity)
             drawdown == [n \in 1..Len(equity) |->
                             RMul(RDiv(RSub(equity[n], rolling[n]), rolling[n]), R(100))]
         IN  Some([ticker         |-> ticker,
                   total_trades   |-> Len(trades),
                   winning_trades |-> Cardinality(winning),
                   losing_trades  |-> Cardinality(losing),
                   win_rate       |-> RMul(RDiv(R(Cardinality(winning)), R(Len(trades))), R(100)),
                   avg_return     |-> RDiv(SumRange(returns, 1, Len(returns)), R(Len(returns))),
                   total_return   |-> RMul(RSub(RDiv(Last(equity), equity[1]), R(1)), R(100)),
                   max_drawdown   |-> SeqMin(drawdown),
                   trades         |-> trades])

\* df.empty or len(df) < 100
TooShort_Off(history) == Len(history) = 0

TooShort(history) == Len(history) = 0 \/ Len(history) < MinBars

\* except Exception as e: print(...); return None
Handler_Reraise == [result |-> None, outcome |-> "raised"]

Handler == [result |-> None, outcome |-> "returned"]

RECURSIVE ScanFrom(_, _, _)
ScanFrom(sim, df, i) ==
    IF i > Len(df.Close) THEN sim ELSE ScanFrom(LoopBody(sim, df, i), df, i + 1)

\* run_backtest_single as a function of what the provider does for the ticker:
\* fetch = [raises |-> BOOLEAN, history |-> the Close series returned].
\* The value is [result, outcome]: what is returned, or that an exception escapes.
RunBacktestSingle(ticker, fetch) ==
    IF fetch.raises THEN Handler
    ELSE IF TooShort(fetch.history) THEN [result |-> None, outcome |-> "returned"]
    ELSE LET df == calculate_golden_cross_signals(fetch.history)
         IN  [result  |-> Metrics(ticker, CloseOpenTrade(ScanFrom(SimStart, df, 1), df)),
              outcome |-> "returned"]

\* ------------------------------------------------ run_backtest_portfolio
MaxTickers == 3

\* best_performers / worst_performers keep ten entries
TopN == 10

Min(a, b) == IF a < b THEN a ELSE b

RECURSIVE AllTrades(_)
AllTrades(rs) ==
    IF rs = <<>> THEN <<>> ELSE AllTrades(SubSeq(rs, 1, Len(rs) - 1)) \o Last(rs).trades

Mean(s) == RDiv(SumRange(s, 1, Len(s)), R(Len(s)))

\* sorted(results, key=lambda x: x.total_return, reverse=True): stable
RECURSIVE InsertDesc(_, _)
InsertDesc(sorted, r) ==
    IF sorted = <<>> THEN <<r>>
    ELSE IF Gt(r.total_return, sorted[1].total_return) THEN <<r>> \o sorted
    ELSE <<sorted[1]>> \o InsertDesc(Tail(sorted), r)

RECURSIVE SortedDesc(_)
SortedDesc(rs) ==
    IF rs = <<>> THEN <<>> ELSE InsertDesc(SortedDesc(SubSeq(rs, 1, Len(rs) - 1)), Last(rs))

Performer(r) ==
    [ticker |-> r.ticker, total_return |-> r.total_return,
     win_rate |-> r.win_rate, trades |-> r.total_trades]

\* the dict run_backtest_portfolio returns (median_return and std_return,
\* which need a square root, are left out)
Aggregate(rs, errs) ==
    IF rs = <<>> THEN [error |-> "No valid results"]
    ELSE LET all_trades  == AllTrades(rs)
             all_returns == [n \in 1..Len(all_trades) |-> ReturnPct(all_trades[n])[1]]
             winning     == Winning(all_returns)
             losing      == Losing(all_returns)
             sorted      == SortedDesc(rs)
         IN  [summary |->
                 [stocks_analyzed        |-> Len(rs),
                  stocks_with_errors     |-> errs,
                  total_trades           |-> Len(all_trades),
                  winning_trades         |-> Cardinality(winning),
                  losing_trades          |-> Cardinality(losing),
                  overall_win_rate       |->
                      RMul(RDiv(R(Cardinality(winning)), R(Len(all_trades))), R(100)),
                  avg_return_per_trade   |-> Mean(all_returns),
                  avg_win_rate_per_stock |-> Mean([n \in 1..Len(rs) |-> rs[n].win_rate]),
                  avg_max_drawdown       |-> Mean([n \in 1..Len(rs) |-> rs[n].max_drawdown])],
              best_performers  |->
                  [n \in 1..Min(TopN, Len(sorted)) |-> Performer(sorted[n])],
              worst_performers |->
                  [n \in 1..Min(TopN, Len(sorted)) |->
                      Performer(sorted[Len(sorted) - Min(TopN, Len(sorted)) + n])],
              all_results |-> rs]

\* ------------------------------------------------------------ signals.py
MaxRows == 4

\* Series.diff() of a boolean column: pandas computes it with xor, and the
\* first row, which has no predecessor, is NaN (None here).
BoolDiff(col) == [i \in 1..Len(col) |-> IF i = 1 THEN None ELSE Some(col[i] # col[i - 1])]

RECURSIVE Flatten(_)
Flatten(ss) == IF ss = <<>> THEN <<>> ELSE Flatten(SubSeq(ss, 1, Len(ss) - 1)) \o Last(ss)

Rows(d) == Len(d.Index)

\* Signal(signal_type, date, price, description, is_bullish); the description
\* is kept as the text's variable parts.
Signal(type, d, i, descr, bullish) ==
    [signal_type |-> type, date |-> d.Index[i], price |-> d.Close[i],
     description |-> descr, is_bullish |-> bullish]

\* df.tail(n)
TailRows(d, n) ==
    LET k == Min(n, Rows(d))
    IN  [c \in DOMAIN d |-> SubSeq(d[c], Rows(d) - k + 1, Rows(d))]

CrossRow(d, crossover, i, short_ma, long_ma) ==
    IF crossover[i] = None THEN <<>>
    ELSE IF crossover[i][1] = TRUE
         THEN <<Signal("golden_cross", d, i, <<short_ma, long_ma>>, TRUE)>>
    ELSE IF crossover[i][1] = FALSE
         THEN <<Signal("dead_cross", d, i, <<short_ma, long_ma>>, FALSE)>>
    ELSE <<>>

detect_ma_crossovers(d, short_ma, long_ma) ==
    IF short_ma \notin DOMAIN d \/ long_ma \notin DOMAIN d THEN <<>>
    ELSE LET short_above == [i \in 1..Rows(d) |-> Gt(d[short_ma][i], d[long_ma][i])]
             crossover   == BoolDiff(short_above)
         IN  Flatten([i \in 1..Rows(d) |-> CrossRow(d, crossover, i, short_ma, long_ma)])

RsiRow_Level(d, prev_rsi, i, oversold, overbought) ==
    IF IsNaN(d.RSI[i]) THEN <<>>
    ELSE (IF Lt(d.RSI[i], oversold)
          THEN <<Signal("rsi_oversold", d, i, <<d.RSI[i]>>, TRUE)>> ELSE <<>>)
         \o
         (IF Gt(d.RSI[i], overbought)
          THEN <<Signal("rsi_overbought", d, i, <<d.RSI[i]>>, FALSE)>> ELSE <<>>)

RsiRow(d, prev_rsi, i, oversold, overbought) ==
    IF IsNaN(d.RSI[i]) \/ IsNaN(prev_rsi[i]) THEN <<>>
    ELSE (IF Lt(prev_rsi[i], oversold) /\ Ge(d.RSI[i], oversold)
          THEN <<Signal("rsi_oversold", d, i, <<d.RSI[i]>>, TRUE)>> ELSE <<>>)
         \o
         (IF Gt(prev_rsi[i], overbought) /\ Le(d.RSI[i], overbought)
          THEN <<Signal("rsi_overbought", d, i, <<d.RSI[i]>>, FALSE)>> ELSE <<>>)

detect_rsi_signals(d, oversold, overbought) ==
    IF "RSI" \notin DOMAIN d THEN <<>>
    ELSE LET prev_rsi == Shift1(d.RSI)
         IN  Flatten([i \in 1..Rows(d) |-> RsiRow(d, prev_rsi, i, oversold, overbought)])

MacdRow(d, macd_cross, i) ==
    IF macd_cross[i] = None THEN <<>>
    ELSE IF macd_cross[i][1] = TRUE
         THEN <<Signal("macd_bullish", d, i, <<>>, TRUE)>>
    ELSE IF macd_cross[i][1] = FALSE
         THEN <<Signal("macd_bearish", d, i, <<>>, FALSE)>>
    ELSE <<>>

detect_macd_signals(d) ==
    IF "MACD" \notin DOMAIN d \/ "MACD_Signal" \notin DOMAIN d THEN <<>>
    ELSE LET macd_above == [i \in 1..Rows(d) |-> Gt(d.MACD[i], d.MACD_Signal[i])]
             macd_cross == BoolDiff(macd_above)
         IN  Flatten([i \in 1..Rows(d) |-> MacdRow(d, macd_cross, i)])

BollingerRow(d, i) ==
    IF IsNaN(d.BB_Lower[i]) \/ IsNaN(d.BB_Upper[i]) THEN <<>>
    ELSE IF Le(d.Close[i], d.BB_Lower[i])
         THEN <<Signal("bb_lower_touch", d, i, <<>>, TRUE)>>
    ELSE IF Ge(d.Close[i], d.BB_Upper[i])
         THEN <<Signal("bb_upper_touch", d, i, <<>>, FALSE)>>
    ELSE <<>>

detect_bollinger_signals(d) ==
    IF ~({"Close", "BB_Lower", "BB_Upper"} \subseteq DOMAIN d) THEN <<>>
    ELSE Flatten([i \in 1..Rows(d) |-> BollingerRow(d, i)])

RECURSIVE InsertByDateDesc_Dedup(_, _)
InsertByDateDesc_Dedup(sorted, x) ==
    IF sorted = <<>> THEN <<x>>
    ELSE IF x.date > sorted[1].date THEN <<x>> \o sorted
    ELSE IF x.date = sorted[1].date THEN sorted
    ELSE <<sorted[1]>> \o InsertByDateDesc_Dedup(Tail(sorted), x)

\* list.sort(key=lambda s: s.date, reverse=True): stable
RECURSIVE InsertByDateDesc(_, _)
InsertByDateDesc(sorted, x) ==
    IF sorted = <<>> THEN <<x>>
    ELSE IF x.date > sorted[1].date THEN <<x>> \o sorted
    ELSE <<sorted[1]>> \o InsertByDateDesc(Tail(sorted), x)

RECURSIVE SortByDateDesc(_)
SortByDateDesc(xs) ==
    IF xs = <<>> THEN <<>>
    ELSE InsertByDateDesc(SortByDateDesc(SubSeq(xs, 1, Len(xs) - 1)), Last(xs))

OVERSOLD == 30
OVERBOUGHT == 70

detect_all_signals(d, lookback_days) ==
    LET recent_df == TailRows(d, lookback_days)
    IN  SortByDateDesc(
            detect_ma_crossovers(recent_df, "SMA_25", "SMA_75")
            \o detect_ma_crossovers(recent_df, "SMA_5", "SMA_25")
            \o detect_rsi_signals(recent_df, R(OVERSOLD), R(OVERBOUGHT))
            \o detect_macd_signals(recent_df)
            \o detect_bollinger_signals(recent_df))

\* The helper columns a detector writes on the frame it works on
\* (df_copy["short_above"], df_copy["crossover"], df_copy["prev_rsi"], ...).
HelperColumns(call, d) ==
    CASE call.fn = "detect_ma_crossovers"
             /\ call.short_ma \in DOMAIN d /\ call.long_ma \in DOMAIN d ->
             LET short_above == [i \in 1..Rows(d) |->
                                    Gt(d[call.short_ma][i], d[call.long_ma][i])]
             IN  [short_above |-> short_above, crossover |-> BoolDiff(short_above)]
      [] call.fn = "detect_rsi_signals" /\ "RSI" \in DOMAIN d ->
             [prev_rsi |-> Shift1(d.RSI)]
      [] call.fn = "detect_macd_signals"
             /\ "MACD" \in DOMAIN d /\ "MACD_Signal" \in DOMAIN d ->
             LET macd_above == [i \in 1..Rows(d) |-> Gt(d.MACD[i], d.MACD_Signal[i])]
             IN  [macd_above |-> macd_above, macd_cross |-> BoolDiff(macd_above)]
      [] OTHER -> <<>>

\* df_copy[name] = column, for each helper column
WithColumns(d, cols) ==
    IF DOMAIN cols = {} THEN d
    ELSE [c \in DOMAIN d \cup DOMAIN cols |-> IF c \in DOMAIN cols THEN cols[c] ELSE d[c]]

\* df_copy = df.copy(): the frame the caller holds is not the one written to.
CallerFrame_Alias(d, df_copy) == df_copy

CallerFrame(d, df_copy) == d

\* The caller's frame once the detector has returned.  detect_all_signals
\* hands its sub-detectors recent_df = df.tail(...), a new frame.
FrameAfter(call, d) ==
    IF call.fn = "detect_all_signals" THEN d
    ELSE CallerFrame(d, WithColumns(d, HelperColumns(call, d)))

\* The list a detector call returns.
RunCall(call, d) ==
    CASE call.fn = "detect_ma_crossovers" ->
             detect_ma_crossovers(d, call.short_ma, call.long_ma)
      [] call.fn = "detect_rsi_signals" ->
             detect_rsi_signals(d, call.oversold, call.overbought)
      [] call.fn = "detect_macd_signals" -> detect_macd_signals(d)
      [] call.fn = "detect_bollinger_signals" -> detect_bollinger_signals(d)
      [] call.fn = "detect_all_signals" -> detect_all_signals(d, call.lookback_days)

\* ---------------------------------------------------- watchlist_manager.py
\* The ticker strings of the model and str.upper() on them.
Tickers == {"AAPL", "aapl", "MSFT"}

Upper(t) ==
    CASE t = "aapl" -> "AAPL"
      [] t = "AAPL" -> "AAPL"
      [] t = "MSFT" -> "MSFT"
      [] t = "" -> ""

StockAlert_CrossOff(ticker) ==
    [ticker |-> ticker, name |-> "", rsi_oversold |-> 30, rsi_overbought |-> 70,
     cross_enabled |-> FALSE]

\* StockAlert(ticker) with the dataclass defaults
StockAlert(ticker) ==
    [ticker |-> ticker, name |-> "", rsi_oversold |-> 30, rsi_overbought |-> 70,
     cross_enabled |-> TRUE]

\* dict.get(key, default)
Get(data, key, default) == IF key \in DOMAIN data THEN data[key] ELSE default

\* StockAlert.from_dict
from_dict(data) ==
    [ticker         |-> Get(data, "ticker", ""),
     name           |-> Get(data, "name", ""),
     rsi_oversold   |-> Get(data, "rsi_oversold", 30),
     rsi_overbought |-> Get(data, "rsi_overbought", 70),
     cross_enabled  |-> Get(data, "cross_enabled", TRUE)]

\* StockAlert.to_dict: asdict
to_dict(stock) == stock

\* A parsed JSON document: an object (its members), an array or a string.
JObject(members) == [json |-> "object", members |-> members]
JArray(items) == [json |-> "array", items |-> items]
JString(s) == [json |-> "string", value |-> s]

\* What open()/json.load() meet: no file, text that is not JSON, or a document.
NoFile == [json |-> "missing"]
NotJson == [json |-> "invalid"]

\* A Python dict keeps insertion order: a sequence of key/value pairs with
\* distinct keys.
Keys(dict) == [n \in 1..Len(dict) |-> dict[n].key]
Values(dict) == [n \in 1..Len(dict) |-> dict[n].value]
HasKey(dict, k) == \E n \in 1..Len(dict) : dict[n].key = k
DictGet(dict, k) ==
    IF HasKey(dict, k)
    THEN Some(dict[CHOOSE n \in 1..Len(dict) : dict[n].key = k].value)
    ELSE None
DictSet(dict, k, v) ==
    IF HasKey(dict, k)
    THEN [n \in 1..Len(dict) |-> IF dict[n].key = k THEN [key |-> k, value |-> v] ELSE dict[n]]
    ELSE Append(dict, [key |-> k, value |-> v])
DictDel(dict, k) == SelectSeq(dict, LAMBDA e : e.key # k)

\* {item["ticker"]: StockAlert.from_dict(item) for item in items}: the first
\* item that is not an object raises TypeError, the first object without a
\* "ticker" raises KeyError.
RECURSIVE Comprehend(_, _)
Comprehend(items, acc) ==
    IF items = <<>> THEN [error |-> "none", stocks |-> acc]
    ELSE LET item == Head(items)
         IN  IF item.json # "object" THEN [error |-> "TypeError", stocks |-> <<>>]
             ELSE IF "ticker" \notin DOMAIN item.members
                  THEN [error |-> "KeyError", stocks |-> <<>>]
             ELSE Comprehend(Tail(items),
                             DictSet(acc, item.members.ticker, from_dict(item.members)))

\* WatchlistManager.load: the new self._stocks, or the exception that escapes
\* (only json.JSONDecodeError and KeyError are caught).
load(file, old) ==
    CASE file.json = "missing" -> [raised |-> "none", stocks |-> <<>>]
      [] file.json = "invalid" -> [raised |-> "none", stocks |-> <<>>]
      [] file.json = "object" ->
             IF "stocks" \notin DOMAIN file.members
             THEN [raised |-> "none", stocks |-> <<>>]
             ELSE IF file.members.stocks.json # "array"
                  THEN [raised |-> "TypeError", stocks |-> old]
             ELSE LET c == Comprehend(file.members.stocks.items, <<>>)
                  IN  IF c.error = "none" THEN [raised |-> "none", stocks |-> c.stocks]
                      ELSE IF c.error = "KeyError" THEN [raised |-> "none", stocks |-> <<>>]
                      ELSE [raised |-> "TypeError", stocks |-> old]
      [] OTHER -> [raised |-> "AttributeError", stocks |-> old]

\* WatchlistManager.save: the document written to the file
save(stocks) ==
    JObject([stocks |-> JArray([n \in 1..Len(stocks) |->
                                   JObject(to_dict(stocks[n].value))])])

\* WatchlistManager(filepath): self._stocks = {} and load()
NewManager(file) == load(file, <<>>)

\* WatchlistManager.add
add(stocks, stock) == DictSet(stocks, Upper(stock.ticker), stock)

\* WatchlistManager.remove: (new self._stocks, return value)
remove(stocks, ticker) ==
    IF HasKey(stocks, Upper(ticker))
    THEN [stocks |-> DictDel(stocks, Upper(ticker)), saved |-> TRUE]
    ELSE [stocks |-> stocks, saved |-> FALSE]

\* WatchlistManager.update(ticker, **kwargs): setattr for each attribute the
\* dataclass has
update(stocks, ticker, kwargs) ==
    IF HasKey(stocks, Upper(ticker))
    THEN LET stock == DictGet(stocks, Upper(ticker))[1]
             new   == [f \in DOMAIN stock |-> IF f \in DOMAIN kwargs THEN kwargs[f] ELSE stock[f]]
         IN  [stocks |-> DictSet(stocks, Upper(ticker), new), saved |-> TRUE]
    ELSE [stocks |-> stocks, saved |-> FALSE]

\* WatchlistManager.get / __contains__ / list_all
get(stocks, ticker) == DictGet(stocks, Upper(ticker))
contains(stocks, ticker) == HasKey(stocks, Upper(ticker))
list_all(stocks) == Values(stocks)

\* ---------------------------------------------------------- alert_checker.py
\* Alert(ticker, alert_type, message, timestamp, order_info=None); the message
\* is kept as its variable parts and the wall-clock timestamp is left out.
Alert(ticker, alert_type, parts) ==
    [ticker |-> ticker, alert_type |-> alert_type, message |-> parts, order_info |-> None]

check_golden_cross(d, ticker) ==
    IF Rows(d) < 2 THEN None
    ELSE IF "SMA_25" \notin DOMAIN d \/ "SMA_75" \notin DOMAIN d THEN None
    ELSE LET current == Rows(d)
             previous == Rows(d) - 1
         IN  IF /\ ~IsNaN(d.SMA_25[current]) /\ ~IsNaN(d.SMA_75[current])
                /\ ~IsNaN(d.SMA_25[previous]) /\ ~IsNaN(d.SMA_75[previous])
                /\ Gt(d.SMA_25[current], d.SMA_75[current])
                /\ Le(d.SMA_25[previous], d.SMA_75[previous])
             THEN Some(Alert(ticker, "golden_cross", <<d.Close[current], d.Index[current]>>))
             ELSE None

check_dead_cross(d, ticker) ==
    IF Rows(d) < 2 THEN None
    ELSE IF "SMA_25" \notin DOMAIN d \/ "SMA_75" \notin DOMAIN d THEN None
    ELSE LET current == Rows(d)
             previous == Rows(d) - 1
         IN  IF /\ ~IsNaN(d.SMA_25[current]) /\ ~IsNaN(d.SMA_75[current])
                /\ ~IsNaN(d.SMA_25[previous]) /\ ~IsNaN(d.SMA_75[previous])
                /\ Lt(d.SMA_25[current], d.SMA_75[current])
                /\ Ge(d.SMA_25[previous], d.SMA_75[previous])
             THEN Some(Alert(ticker, "dead_cross", <<d.Close[current], d.Index[current]>>))
             ELSE None

check_rsi_oversold_Transition(d, ticker, threshold) ==
    IF "RSI" \notin DOMAIN d THEN None
    ELSE LET rsi == d.RSI[Rows(d)]
         IN  IF ~IsNaN(rsi) /\ Lt(rsi, R(threshold))
                /\ Rows(d) >= 2 /\ Ge(d.RSI[Rows(d) - 1], R(threshold))
             THEN Some(Alert(ticker, "rsi_oversold", <<d.Close[Rows(d)], rsi>>))
             ELSE None

check_rsi_oversold(d, ticker, threshold) ==
    IF "RSI" \notin DOMAIN d THEN None
    ELSE LET rsi == d.RSI[Rows(d)]
         IN  IF ~IsNaN(rsi) /\ Lt(rsi, R(threshold))
             THEN Some(Alert(ticker, "rsi_oversold", <<d.Close[Rows(d)], rsi>>))
             ELSE None

check_rsi_overbought(d, ticker, threshold) ==
    IF "RSI" \notin DOMAIN d THEN None
    ELSE LET rsi == d.RSI[Rows(d)]
         IN  IF ~IsNaN(rsi) /\ Gt(rsi, R(threshold))
             THEN Some(Alert(ticker, "rsi_overbought", <<d.Close[Rows(d)], rsi>>))
             ELSE None

\* check_stock: a check's result is None or an alert, appended when it is an
\* alert (None is the empty list, an alert a one-element list, so \o appends
\* it).  fetched is None when fetch_stock_data raises (no data for the
\* ticker, provider error), else the frame add_all_indicators returns.  Any
\* exception ends the checks and the alerts found so far are returned.
\* A threshold that is None (a JSON null in watchlist.json, which from_dict
\* passes on; written Null, a number no threshold takes, so that it can stand
\* where a number stands) makes rsi < threshold raise TypeError once
\* pd.notna(rsi) holds.
Null == 0 - 1

CompareRaises(d, threshold) ==
    threshold = Null /\ "RSI" \in DOMAIN d /\ ~IsNaN(d.RSI[Rows(d)])

\* check_stock without its try: the exception leaves the function
CheckHandler_Reraise(alerts) == [raised |-> TRUE, alerts |-> <<>>]

\* except Exception as e: print(...), then return alerts
CheckHandler(alerts) == [raised |-> FALSE, alerts |-> alerts]

\* The value is [raised, alerts]: whether an exception leaves check_stock, and
\* the list it returns.
check_stock(stock, fetched) ==
    IF fetched = None THEN CheckHandler(<<>>)
    ELSE LET d        == fetched[1]
             cross    == IF stock.cross_enabled
                         THEN check_golden_cross(d, stock.ticker)
                              \o check_dead_cross(d, stock.ticker)
                         ELSE <<>>
             oversold == cross \o check_rsi_oversold(d, stock.ticker, stock.rsi_oversold)
         IN  IF CompareRaises(d, stock.rsi_oversold) THEN CheckHandler(cross)
             ELSE IF CompareRaises(d, stock.rsi_overbought) THEN CheckHandler(oversold)
             ELSE [raised |-> FALSE,
                   alerts |-> oversold
                              \o check_rsi_overbought(d, stock.ticker, stock.rsi_overbought)]

\* str.strip() on the cells of the model
Strip(t) == IF t = " MSFT " THEN "MSFT" ELSE t

\* csv.DictReader rows -> tickers: row.get("ticker", "").strip().upper(), empty
\* ones dropped.  A row is the text of its ticker cell.
CsvTickers(rows) ==
    LET cells == [n \in 1..Len(rows) |-> Upper(Strip(rows[n]))]
    IN  SelectSeq(cells, LAMBDA t : t # "")

\* run_alert_check up to the loop: the stocks to check, or the exception that
\* escapes.  path is "json" or "csv" (the suffix of watchlist_path); json_file
\* is the watchlist.json at that path or beside the csv, csv_file the csv.
StocksToCheck(path, json_file, csv_file) ==
    IF path = "json" \/ json_file # NoFile
    THEN LET m == NewManager(json_file)
         IN  [raised |-> m.raised, branch |-> "json",
              stocks |-> IF m.raised = "none" THEN list_all(m.stocks) ELSE <<>>]
    ELSE [raised |-> "none", branch |-> "csv",
          stocks |-> IF csv_file = None THEN <<>>
                     ELSE [n \in 1..Len(CsvTickers(csv_file[1])) |->
                              StockAlert(CsvTickers(csv_file[1])[n])]]

\* the loop of run_alert_check over the stocks: all_alerts, or that an
\* exception left check_stock
RECURSIVE CheckAll(_, _)
CheckAll(stocks, fetches) ==
    IF stocks = <<>> THEN [raised |-> "none", alerts |-> <<>>]
    ELSE LET first == check_stock(Head(stocks), fetches[Upper(Head(stocks).ticker)])
             rest  == CheckAll(Tail(stocks), fetches)
         IN  IF first.raised THEN [raised |-> "Exception", alerts |-> <<>>]
             ELSE IF rest.raised # "none" THEN rest
             ELSE [raised |-> "none", alerts |-> first.alerts \o rest.alerts]

\* run_alert_check as a function of the files and of what the provider
\* returns for each ticker: the list returned, or the exception raised
run_alert_check(path, json_file, csv_file, fetches) ==
    LET s == StocksToCheck(path, json_file, csv_file)
    IN  IF s.raised # "none" THEN [raised |-> s.raised, alerts |-> <<>>]
        ELSE CheckAll(s.stocks, fetches)

\* send_alerts: send_notification is called once for each alert of the list,
\* in order, whether or not the order information could be added and
\* whatever the channel answers.  A notification is kept as the ticker and
\* the type of its alert.
send_alerts(alerts) ==
    [n \in 1..Len(alerts) |->
        [ticker |-> alerts[n].ticker, alert_type |-> alerts[n].alert_type]]

\* ------------------------------------------------------------- scheduler.py
\* job: the notifications one run sends.  get_watchlist_path() is the
\* watchlist.csv of the project root, so the watchlist.json beside it is read
\* when there is one; an exception of run_alert_check is printed.
job(json_file, csv_file, fetches) ==
    LET r == run_alert_check("csv", json_file, csv_file, fetches)
    IN  IF r.raised # "none" THEN <<>>
        ELSE IF r.alerts # <<>> THEN send_alerts(r.alerts)
        ELSE <<>>

\* ------------------------------------------------------------ order_info.py
\* Series.min(): NaN values are skipped; NaN when nothing is left
RECURSIVE MinSkipNa(_)
MinSkipNa(xs) ==
    IF xs = <<>> THEN NaN
    ELSE LET rest == MinSkipNa(Tail(xs))
         IN  IF IsNaN(Head(xs)) THEN rest
             ELSE IF IsNaN(rest) \/ Lt(Head(xs), rest) THEN Head(xs)
             ELSE rest

\* find_recent_swing_low: df.tail(lookback)["Low"].min()
find_recent_swing_low(low, lookback) ==
    MinSkipNa(SubSeq(low, Len(low) - Min(lookback, Len(low)) + 1, Len(low)))

\* int(x) of a float: truncation toward zero
IntOf_Floor(x) == x[1] \div x[2]

IntOf(x) == IF x[1] >= 0 THEN x[1] \div x[2] ELSE -((-x[1]) \div x[2])

\* position_size_shares, and a variant capped by what the account can buy
Shares_Capped(risk_amount, risk_per_share, total_assets, current_price) ==
    Min(IntOf(RDiv(risk_amount, risk_per_share)), IntOf(RDiv(total_assets, current_price)))

Shares(risk_amount, risk_per_share, total_assets, current_price) ==
    IntOf(RDiv(risk_amount, risk_per_share))

\* the test that rejects a stop at or above the price, and a variant without it
BadStop_Off(risk_per_share) == FALSE

BadStop(risk_per_share) == Le(risk_per_share, R(0))

\* calculate_order_info.  quote is what the provider gives: info_raises (the
\* info request fails), name, price (None when the quote has none), low (the
\* Low column of the fetched history, None when fetch_stock_data raises).
\* The result is the exception raised or the OrderInfo returned.
calculate_order_info(ticker, quote, total_assets, risk_percent, stop_loss_buffer, risk_reward, lookback_days) ==
    IF quote.info_raises THEN [raised |-> "Exception", order |-> None]
    ELSE IF quote.price = None \/ Le(quote.price[1], R(0))
         THEN [raised |-> "ValueError", order |-> None]
    ELSE IF quote.low = None THEN [raised |-> "ValueError", order |-> None]
    ELSE
    LET current_price     == quote.price[1]
        swing_low         == find_recent_swing_low(quote.low[1], lookback_days)
        stop_loss_price   == RMul(swing_low, RSub(R(1), RDiv(stop_loss_buffer, R(100))))
        stop_loss_percent == RMul(RDiv(RSub(current_price, stop_loss_price), current_price),
                                  R(100))
        risk_amount       == RMul(total_assets, RDiv(risk_percent, R(100)))
        risk_per_share    == RSub(current_price, stop_loss_price)
    IN  IF BadStop(risk_per_share) THEN [raised |-> "ValueError", order |-> None]
        \* int() of a NaN quotient raises ValueError
        ELSE IF IsNaN(RDiv(risk_amount, risk_per_share))
             THEN [raised |-> "ValueError", order |-> None]
        ELSE
        LET position_size_shares == Shares(risk_amount, risk_per_share, total_assets,
                                           current_price)
            position_size_value  == RMul(R(position_size_shares), current_price)
            reward_amount        == RMul(risk_amount, risk_reward)
            profit_per_share     == RMul(risk_per_share, risk_reward)
            take_profit_price    == RAdd(current_price, profit_per_share)
            take_profit_percent  == RMul(RDiv(profit_per_share, current_price), R(100))
        IN  [raised |-> "none",
             order |-> Some([ticker |-> ticker, name |-> quote.name,
                             current_price |-> current_price,
                             entry_price |-> current_price,
                             position_size_shares |-> position_size_shares,
                             position_size_value |-> position_size_value,
                             stop_loss_price |-> stop_loss_price,
                             stop_loss_percent |-> stop_loss_percent,
                             take_profit_price |-> take_profit_price,
                             take_profit_percent |-> take_profit_percent,
                             risk_amount |-> risk_amount,
                             reward_amount |-> reward_amount,
                             risk_reward_ratio |-> risk_reward])]

\* ------------------------------------------------------------------ state
VARIABLES
    \* run_backtest_single
    history,        \* the Close series stock.history() returns
    fetch_raises,   \* the provider raises instead of returning
    pc,             \* "fetch", "scan" or "done"
    df,             \* the frame of calculate_golden_cross_signals, None before
    i,              \* the row the loop is at
    current_trade, trades, equity_curve,
    result,         \* the return value
    outcome,        \* "running", "returned" or "raised"
    \* run_backtest_portfolio
    tickers, max_stocks,
    market,         \* ticker -> what the provider does for it
    pf_pc,          \* "idle", "start", "loop" or "done"
    pf_i,           \* loop index (0-based, as enumerate)
    results, errors,
    calls,          \* the tickers run_backtest_single was called with, in order
    output,         \* the returned dict, None before
    \* signals.py
    frame,          \* the IndicatorFrame handed to the detector
    sg_pc,          \* "idle", "ready", "done" or "repeated"
    sg_call,        \* the detector called and its arguments, None before
    signals,        \* the list it returned
    again,          \* the list the same call returned the second time, None before
    \* run_alert_check
    al_path,        \* "json" or "csv": the suffix of watchlist_path
    al_json,        \* the watchlist.json at that path, or beside the csv
    al_csv,         \* the ticker cells of the csv file, None when there is none
    al_market,      \* upper-cased ticker -> the frame check_stock gets, None if the fetch raises
    al_pc,          \* "idle", "start", "loop", "done" or "raised"
    al_raised,      \* the exception that escaped run_alert_check, "none" otherwise
    al_stocks,      \* the StockAlert list the loop runs over
    al_i,           \* loop index
    al_checked,     \* the stocks check_stock was called with, in order
    all_alerts,
    \* calculate_order_info
    oi_args,        \* the arguments of the call
    oi_quote,       \* what the provider returns for the ticker
    oi_pc,          \* "idle", "call" or "done"
    oi_raised,      \* the exception raised, "none" otherwise
    oi_order,       \* the OrderInfo returned, None before or when it raised
    \* WatchlistManager
    wl_file,        \* the document in the watchlist file
    wl_mgr,         \* instance -> its self._stocks, None while not constructed
    wl_last,        \* the last operation: its name, instance, argument and outcome
    wl_ops,         \* the number of operations so far
    \* indicators.py
    in_data,        \* the price series handed to the indicator
    in_window,      \* the window it is called with, 0 before and when it takes none
    in_pc,          \* "idle", "call" or "done"
    in_fn,          \* the function called, None before
    in_out,         \* the series (or dictionary of series) it returned
    \* scheduler.py
    sc_json,        \* the watchlist.json beside the scheduler's watchlist.csv
    sc_pc,          \* "idle" or "running"
    sc_polls,       \* for each run of job so far: the watchlist and the frames it met
    sc_sent         \* for each run of job so far: the notifications it sent

BtVars == <<history, fetch_raises, pc, df, i, current_trade, trades, equity_curve,
            result, outcome>>
PfVars == <<tickers, max_stocks, market, pf_pc, pf_i, results, errors, calls, output>>
SgVars == <<frame, sg_pc, sg_call, signals, again>>
AlVars == <<al_path, al_json, al_csv, al_market, al_pc, al_raised, al_stocks, al_i,
            al_checked, all_alerts>>
OiVars == <<oi_args, oi_quote, oi_pc, oi_raised, oi_order>>
WlVars == <<wl_file, wl_mgr, wl_last, wl_ops>>
InVars == <<in_data, in_window, in_pc, in_fn, in_out>>
ScVars == <<sc_json, sc_pc, sc_polls, sc_sent>>
vars == <<BtVars, PfVars, SgVars, AlVars, OiVars, WlVars, InVars, ScVars>>

NotBt == <<PfVars, SgVars, AlVars, OiVars, WlVars, InVars, ScVars>>
NotPf == <<BtVars, SgVars, AlVars, OiVars, WlVars, InVars, ScVars>>
NotSg == <<BtVars, PfVars, AlVars, OiVars, WlVars, InVars, ScVars>>
NotAl == <<BtVars, PfVars, SgVars, OiVars, WlVars, InVars, ScVars>>
NotOi == <<BtVars, PfVars, SgVars, AlVars, WlVars, InVars, ScVars>>
NotWl == <<BtVars, PfVars, SgVars, AlVars, OiVars, InVars, ScVars>>
NotIn == <<BtVars, PfVars, SgVars, AlVars, OiVars, WlVars, ScVars>>
NotSc == <<BtVars, PfVars, SgVars, AlVars, OiVars, WlVars, InVars>>

Sim == [current_trade |-> current_trade, trades |-> trades, equity_curve |-> equity_curve]

SetSim(sim) ==
    /\ current_trade' = sim.current_trade
    /\ trades' = sim.trades
    /\ equity_curve' = sim.equity_curve

Series(n) == [1..n -> {R(p) : p \in Prices}]

\* ------------------------------------------------- run_backtest_single
BtInit ==
    /\ \E n \in 0..MaxBars : history \in Series(n)
    /\ fetch_raises \in IF history = <<>> THEN BOOLEAN ELSE {FALSE}
    /\ pc = "fetch"
    /\ df = None
    /\ i = 0
    /\ current_trade = None
    /\ trades = <<>>
    /\ equity_curve = <<>>
    /\ result = None
    /\ outcome = "running"

BtIdle ==
    /\ history = <<>>
    /\ fetch_raises = FALSE
    /\ pc = "idle"
    /\ df = None
    /\ i = 0
    /\ current_trade = None
    /\ trades = <<>>
    /\ equity_curve = <<>>
    /\ result = None
    /\ outcome = "running"

\* stock.history raises: the except clause returns None.
BtRaise ==
    /\ pc = "fetch"
    /\ fetch_raises
    /\ result' = Handler.result
    /\ outcome' = Handler.outcome
    /\ pc' = "done"
    /\ UNCHANGED <<history, fetch_raises, df, i, current_trade, trades, equity_curve>>
    /\ UNCHANGED NotBt

\* if df.empty or len(df) < 100: return None
BtSkip ==
    /\ pc = "fetch"
    /\ ~fetch_raises
    /\ TooShort(history)
    /\ result' = None
    /\ outcome' = "returned"
    /\ pc' = "done"
    /\ UNCHANGED <<history, fetch_raises, df, i, current_trade, trades, equity_curve>>
    /\ UNCHANGED NotBt

\* the signals are computed and the simulation starts
BtBegin ==
    /\ pc = "fetch"
    /\ ~fetch_raises
    /\ ~TooShort(history)
    /\ df' = Some(calculate_golden_cross_signals(history))
    /\ SetSim(SimStart)
    /\ i' = 1
    /\ pc' = "scan"
    /\ UNCHANGED <<history, fetch_raises, result, outcome>>
    /\ UNCHANGED NotBt

\* one row of "for date, row in df.iterrows()"
BtScanRow ==
    /\ pc = "scan"
    /\ i =< Len(df[1].Close)
    /\ SetSim(LoopBody(Sim, df[1], i))
    /\ i' = i + 1
    /\ UNCHANGED <<history, fetch_raises, pc, df, result, outcome>>
    /\ UNCHANGED NotBt

\* after the loop: the open trade is closed, the metrics computed, the result returned
BtFinish ==
    /\ pc = "scan"
    /\ i > Len(df[1].Close)
    /\ LET sim == CloseOpenTrade(Sim, df[1])
       IN  /\ SetSim(sim)
           /\ result' = Metrics("T", sim)
    /\ outcome' = "returned"
    /\ pc' = "done"
    /\ UNCHANGED <<history, fetch_raises, df, i>>
    /\ UNCHANGED NotBt

BtNext == BtRaise \/ BtSkip \/ BtBegin \/ BtScanRow \/ BtFinish

\* ------------------------------------------------ run_backtest_portfolio
Flat(n) == [k \in 1..n |-> R(2)]
Zigzag(n) == [k \in 1..n |-> R(IF k % 2 = 1 THEN 3 ELSE 1)]
Spike(n) == [k \in 1..n |-> R(IF k = n - 1 THEN 3 ELSE IF k = n THEN 1 ELSE 2)]

\* What the provider can do for a ticker of a portfolio run.
PfFetches ==
    {[raises |-> TRUE,  history |-> <<>>],
     [raises |-> FALSE, history |-> <<>>],
     [raises |-> FALSE, history |-> Zigzag(MinBars - 1)],
     [raises |-> FALSE, history |-> Flat(MinBars)],
     [raises |-> FALSE, history |-> Spike(MinBars)],
     [raises |-> FALSE, history |-> Zigzag(MaxBars)]}

PfInit ==
    /\ \E n \in 0..MaxTickers :
          /\ tickers = [k \in 1..n |-> k]
          /\ market \in [1..n -> PfFetches]
    /\ max_stocks \in 0..MaxTickers
    /\ pf_pc = "start"
    /\ pf_i = 0
    /\ results = <<>>
    /\ errors = 0
    /\ calls = <<>>
    /\ output = None

PfIdle ==
    /\ tickers = <<>>
    /\ market = <<>>
    /\ max_stocks = 0
    /\ pf_pc = "idle"
    /\ pf_i = 0
    /\ results = <<>>
    /\ errors = 0
    /\ calls = <<>>
    /\ output = None

\* results = []; errors = 0; tickers = tickers[:max_stocks]
PfStart ==
    /\ pf_pc = "start"
    /\ tickers' = SubSeq(tickers, 1, Min(max_stocks, Len(tickers)))
    /\ results' = <<>>
    /\ errors' = 0
    /\ pf_i' = 0
    /\ pf_pc' = "loop"
    /\ UNCHANGED <<max_stocks, market, calls, output>>
    /\ UNCHANGED NotPf

\* if result: results.append(result) else: errors += 1
Tally_Uncounted(rs, errs, res) ==
    IF res # None THEN [results |-> Append(rs, res[1]), errors |-> errs]
    ELSE [results |-> rs, errors |-> errs]

Tally(rs, errs, res) ==
    IF res # None THEN [results |-> Append(rs, res[1]), errors |-> errs]
    ELSE [results |-> rs, errors |-> errs + 1]

\* one iteration of "for i, ticker in enumerate(tickers)"; an exception that
\* escapes run_backtest_single ends run_backtest_portfolio
PfIter ==
    /\ pf_pc = "loop"
    /\ pf_i < Len(tickers)
    /\ LET ticker == tickers[pf_i + 1]
           r      == RunBacktestSingle(ticker, market[ticker])
       IN  /\ calls' = Append(calls, ticker)
           /\ IF r.outcome = "raised"
              THEN /\ pf_pc' = "raised"
                   /\ UNCHANGED <<results, errors, pf_i>>
              ELSE /\ results' = Tally(results, errors, r.result).results
                   /\ errors' = Tally(results, errors, r.result).errors
                   /\ pf_i' = pf_i + 1
                   /\ pf_pc' = pf_pc
    /\ UNCHANGED <<tickers, max_stocks, market, output>>
    /\ UNCHANGED NotPf

\* after the loop: the error dict or the aggregate
PfFinish ==
    /\ pf_pc = "loop"
    /\ pf_i = Len(tickers)
    /\ output' = Some(Aggregate(results, errors))
    /\ pf_pc' = "done"
    /\ UNCHANGED <<tickers, max_stocks, market, pf_i, results, errors, calls>>
    /\ UNCHANGED NotPf

PfNext == PfStart \/ PfIter \/ PfFinish

\* ------------------------------------------------------------ signals.py
\* A rolling-window column: NaN on its first rows, defined from then on.
Warmup(n, vals) ==
    {c \in [1..n -> vals \cup {NaN}] : \A k \in 2..n : IsNaN(c[k]) => IsNaN(c[k - 1])}

NaNs(c) == Cardinality({k \in 1..Len(c) : IsNaN(c[k])})

AllNaN(n) == [k \in 1..n |-> NaN]

Const(n, v) == [k \in 1..n |-> v]

\* SMA_25 is the pivot of both pairs; the other two lie at, above or below it.
Sma5Values == {R(2), R(3)}
Sma25Values == {R(2)}
Sma75Values == {R(1), R(2)}
RsiValues == {R(20), R(30), R(40), R(70), R(80)}
MacdValues == {R(-1), R(1)}
BbLowerValues == {R(1), R(2)}
BbUpperValues == {R(3)}

BaseFrame(n) ==
    [Index |-> [k \in 1..n |-> k], Close |-> [k \in 1..n |-> R(k)],
     SMA_5 |-> AllNaN(n), SMA_25 |-> AllNaN(n), SMA_75 |-> AllNaN(n),
     RSI |-> AllNaN(n), MACD |-> Const(n, R(0)), MACD_Signal |-> Const(n, R(0)),
     BB_Lower |-> AllNaN(n), BB_Upper |-> AllNaN(n)]

\* Frames whose moving averages vary (a longer window is undefined for longer).
MaFrames(n) ==
    {[BaseFrame(n) EXCEPT !.SMA_5 = t[1], !.SMA_25 = t[2], !.SMA_75 = t[3]] :
        t \in {u \in Warmup(n, Sma5Values) \X Warmup(n, Sma25Values) \X Warmup(n, Sma75Values) :
                  NaNs(u[1]) =< NaNs(u[2]) /\ NaNs(u[2]) =< NaNs(u[3])}}

\* Frames whose RSI varies; RSI can be undefined on any row (0 / 0).
RsiFrames(n) ==
    {[BaseFrame(n) EXCEPT !.RSI = r] : r \in [1..n -> RsiValues \cup {NaN}]}

\* Frames whose MACD line varies around its signal line (EMAs: defined on every row).
MacdFrames(n) ==
    {[BaseFrame(n) EXCEPT !.MACD = m] : m \in [1..n -> MacdValues]}

\* Frames with Bollinger bands, undefined until the window is full; Close is
\* 1, 2, 3, ... so it lies at or below, inside, or at or above the bands.
BbFrames(n) ==
    {[BaseFrame(n) EXCEPT !.BB_Lower = t[1], !.BB_Upper = t[2]] :
        t \in {u \in Warmup(n, BbLowerValues) \X Warmup(n, BbUpperValues) :
                  NaNs(u[1]) = NaNs(u[2])}}

\* Frames in which several indicators move at once.
MixedFrames(n) ==
    {[BaseFrame(n) EXCEPT !.SMA_5 = Const(n, R(3)), !.SMA_25 = Const(n, R(2)),
                          !.RSI = r, !.MACD = m,
                          !.BB_Lower = Const(n, R(2)), !.BB_Upper = Const(n, R(3))] :
        r \in [1..n -> {R(20), R(40)}], m \in [1..n -> MacdValues]}

SgInit ==
    /\ \E n \in 1..MaxRows :
           frame \in MaFrames(n) \cup RsiFrames(n) \cup MacdFrames(n) \cup BbFrames(n)
                     \cup MixedFrames(n)
    /\ sg_pc = "ready"
    /\ sg_call = None
    /\ signals = <<>>
    /\ again = None

SgIdle ==
    /\ frame = None
    /\ sg_pc = "idle"
    /\ sg_call = None
    /\ signals = <<>>
    /\ again = None

SgReturn(call, out) ==
    /\ sg_call' = Some(call)
    /\ signals' = out
    /\ sg_pc' = "done"
    /\ frame' = FrameAfter(call, frame)
    /\ again' = None
    /\ UNCHANGED NotSg

MaPairs == {<<"SMA_25", "SMA_75">>, <<"SMA_5", "SMA_25">>}
RsiThresholds == {<<R(30), R(70)>>, <<R(40), R(70)>>}

SgDetectMa ==
    \E pair \in MaPairs :
        /\ sg_pc = "ready"
        /\ SgReturn([fn |-> "detect_ma_crossovers", short_ma |-> pair[1], long_ma |-> pair[2]],
                    detect_ma_crossovers(frame, pair[1], pair[2]))

SgDetectRsi ==
    \E th \in RsiThresholds :
        /\ sg_pc = "ready"
        /\ SgReturn([fn |-> "detect_rsi_signals", oversold |-> th[1], overbought |-> th[2]],
                    detect_rsi_signals(frame, th[1], th[2]))

SgDetectMacd ==
    /\ sg_pc = "ready"
    /\ SgReturn([fn |-> "detect_macd_signals"], detect_macd_signals(frame))

SgDetectBollinger ==
    /\ sg_pc = "ready"
    /\ SgReturn([fn |-> "detect_bollinger_signals"], detect_bollinger_signals(frame))

SgDetectAll ==
    \E lookback_days \in 1..MaxRows :
        /\ sg_pc = "ready"
        /\ SgReturn([fn |-> "detect_all_signals", lookback_days |-> lookback_days],
                    detect_all_signals(frame, lookback_days))

\* The same detector is called once more with the same arguments on the frame
\* the caller still holds.
SgRepeat ==
    /\ sg_pc = "done"
    /\ again' = Some(RunCall(sg_call[1], frame))
    /\ frame' = FrameAfter(sg_call[1], frame)
    /\ sg_pc' = "repeated"
    /\ UNCHANGED <<sg_call, signals>>
    /\ UNCHANGED NotSg

SgNext ==
    \/ SgDetectMa \/ SgDetectRsi \/ SgDetectMacd \/ SgDetectBollinger \/ SgDetectAll
    \/ SgRepeat

\* ---------------------------------------------------------- run_alert_check
AlertRows == 2

\* Frames whose SMA_25 moves around SMA_75 (either may be undefined).
CrossFrames(n) ==
    {[BaseFrame(n) EXCEPT !.SMA_25 = a, !.SMA_75 = b] :
        a \in [1..n -> {R(1), R(2), R(3), NaN}], b \in Warmup(n, {R(2)})}

AlertFrames == UNION {RsiFrames(n) \cup CrossFrames(n) : n \in 1..AlertRows}

\* an oversold frame and a golden-cross frame for the second symbol
OversoldFrame == [BaseFrame(1) EXCEPT !.RSI = <<R(20)>>]
GoldenFrame == [BaseFrame(2) EXCEPT !.SMA_25 = <<R(2), R(3)>>, !.SMA_75 = <<R(2), R(2)>>]

\* per-symbol settings as the settings page stores them
Settings ==
    {[rsi_oversold |-> 30, rsi_overbought |-> 70, cross_enabled |-> TRUE],
     [rsi_oversold |-> 40, rsi_overbought |-> 80, cross_enabled |-> TRUE],
     [rsi_oversold |-> 30, rsi_overbought |-> 70, cross_enabled |-> FALSE],
     [rsi_oversold |-> 30, rsi_overbought |-> Null, cross_enabled |-> TRUE]}

Item(ticker, st) ==
    JObject([ticker |-> ticker, name |-> "", rsi_oversold |-> st.rsi_oversold,
             rsi_overbought |-> st.rsi_overbought, cross_enabled |-> st.cross_enabled])

\* watchlist.json documents: saved ones, hand-written ones, legacy flat lists
JsonFiles ==
    {NoFile, NotJson,
     JArray(<<JString("AAPL"), JString("MSFT")>>),
     JObject([tickers |-> JArray(<<JString("AAPL"), JString("MSFT")>>)]),
     JObject([stocks |-> JArray(<<JString("AAPL"), JString("MSFT")>>)]),
     JObject([stocks |-> JArray(<<>>)]),
     JObject([stocks |-> JArray(<<JObject([ticker |-> "MSFT"]), JObject([name |-> "Apple"])>>)]),
     JObject([stocks |-> JArray(<<JObject([ticker |-> "MSFT"])>>)])}
    \cup {JObject([stocks |-> JArray(<<Item(t, st), JObject([ticker |-> "MSFT"])>>)]) :
             t \in {"AAPL", "aapl"}, st \in Settings}

\* watchlist.csv: the cells of its ticker column
CsvFiles ==
    {None, Some(<<>>), Some(<<"AAPL">>), Some(<<"aapl", " MSFT ">>),
     Some(<<"AAPL", "", "MSFT">>)}

AlInit ==
    /\ al_path \in {"json", "csv"}
    /\ al_json \in IF al_path = "json" THEN JsonFiles
                   ELSE {NoFile, JObject([stocks |-> JArray(<<JObject([ticker |-> "MSFT"])>>)])}
    /\ al_csv \in IF al_path = "csv" THEN CsvFiles ELSE {None}
    /\ \E f \in {None} \cup {Some(d) : d \in AlertFrames},
          g \in {None, Some(OversoldFrame), Some(GoldenFrame)} :
           al_market = [t \in {"AAPL", "MSFT"} |-> IF t = "AAPL" THEN f ELSE g]
    /\ al_pc = "start"
    /\ al_raised = "none"
    /\ al_stocks = <<>>
    /\ al_i = 0
    /\ al_checked = <<>>
    /\ all_alerts = <<>>

AlIdle ==
    /\ al_path = "json"
    /\ al_json = NoFile
    /\ al_csv = None
    /\ al_market = <<>>
    /\ al_pc = "idle"
    /\ al_raised = "none"
    /\ al_stocks = <<>>
    /\ al_i = 0
    /\ al_checked = <<>>
    /\ all_alerts = <<>>

\* the watchlist is read; an exception of WatchlistManager escapes
AlStart ==
    /\ al_pc = "start"
    /\ LET s == StocksToCheck(al_path, al_json, al_csv)
       IN  /\ al_raised' = s.raised
           /\ al_stocks' = s.stocks
           /\ al_pc' = IF s.raised # "none" THEN "raised"
                       ELSE IF s.branch = "json" /\ s.stocks = <<>> THEN "done"
                       ELSE "loop"
    /\ UNCHANGED <<al_path, al_json, al_csv, al_market, al_i, al_checked, all_alerts>>
    /\ UNCHANGED NotAl

\* for stock in stocks: all_alerts.extend(check_stock(stock)); an exception
\* that left check_stock would leave run_alert_check too
AlCheck ==
    /\ al_pc = "loop"
    /\ al_i < Len(al_stocks)
    /\ LET stock == al_stocks[al_i + 1]
           r     == check_stock(stock, al_market[Upper(stock.ticker)])
       IN  /\ al_checked' = Append(al_checked, stock)
           /\ all_alerts' = IF r.raised THEN all_alerts ELSE all_alerts \o r.alerts
           /\ al_pc' = IF r.raised THEN "raised" ELSE al_pc
           /\ al_raised' = IF r.raised THEN "Exception" ELSE al_raised
    /\ al_i' = al_i + 1
    /\ UNCHANGED <<al_path, al_json, al_csv, al_market, al_stocks>>
    /\ UNCHANGED NotAl

\* return all_alerts
AlReturn ==
    /\ al_pc = "loop"
    /\ al_i = Len(al_stocks)
    /\ al_pc' = "done"
    /\ UNCHANGED <<al_path, al_json, al_csv, al_market, al_raised, al_stocks, al_i,
                   al_checked, all_alerts>>
    /\ UNCHANGED NotAl

AlNext == AlStart \/ AlCheck \/ AlReturn

\* ------------------------------------------------------ calculate_order_info
LowBars == 2

Assets == {R(100000), R(1000), R(-1000)}
RiskPercents == {R(2), R(1)}
Buffers == {R(5), R(0), R(-20)}
QuotePrices == {None, Some(R(0)), Some(R(100)), Some(R(10))}
Lows == {R(90), R(104), R(120), R(10), NaN}

OiInit ==
    /\ \E total_assets \in Assets, risk_percent \in RiskPercents,
          stop_loss_buffer \in Buffers, lookback_days \in 1..LowBars :
           oi_args = [ticker |-> "AAPL", total_assets |-> total_assets,
                      risk_percent |-> risk_percent, stop_loss_buffer |-> stop_loss_buffer,
                      risk_reward |-> R(2), lookback_days |-> lookback_days]
    /\ \E info_raises \in BOOLEAN, price \in QuotePrices,
          low \in {None} \cup {Some(l) : l \in UNION {[1..n -> Lows] : n \in 1..LowBars}} :
           /\ info_raises => (price = None /\ low = None)
           /\ oi_quote = [info_raises |-> info_raises, name |-> "Apple Inc.",
                          price |-> price, low |-> low]
    /\ oi_pc = "call"
    /\ oi_raised = "none"
    /\ oi_order = None

OiIdle ==
    /\ oi_args = None
    /\ oi_quote = None
    /\ oi_pc = "idle"
    /\ oi_raised = "none"
    /\ oi_order = None

\* the call fails with an exception
OiRaise ==
    /\ oi_pc = "call"
    /\ LET r == calculate_order_info(oi_args.ticker, oi_quote, oi_args.total_assets,
                                     oi_args.risk_percent, oi_args.stop_loss_buffer,
                                     oi_args.risk_reward, oi_args.lookback_days)
       IN  /\ r.raised # "none"
           /\ oi_raised' = r.raised
           /\ oi_order' = r.order
    /\ oi_pc' = "done"
    /\ UNCHANGED <<oi_args, oi_quote>>
    /\ UNCHANGED NotOi

\* the call returns an OrderInfo
OiReturn ==
    /\ oi_pc = "call"
    /\ LET r == calculate_order_info(oi_args.ticker, oi_quote, oi_args.total_assets,
                                     oi_args.risk_percent, oi_args.stop_loss_buffer,
                                     oi_args.risk_reward, oi_args.lookback_days)
       IN  /\ r.raised = "none"
           /\ oi_raised' = r.raised
           /\ oi_order' = r.order
    /\ oi_pc' = "done"
    /\ UNCHANGED <<oi_args, oi_quote>>
    /\ UNCHANGED NotOi

OiNext == OiRaise \/ OiReturn

\* ---------------------------------------------------------- WatchlistManager
MaxOps == 4

Managers == {"A", "B"}

\* the configs handed to add, and the keyword arguments handed to update
NewStocks ==
    {[StockAlert(t) EXCEPT !.rsi_oversold = st.rsi_oversold,
                           !.rsi_overbought = st.rsi_overbought,
                           !.cross_enabled = st.cross_enabled] :
        t \in Tickers,
        st \in {[rsi_oversold |-> 30, rsi_overbought |-> 70, cross_enabled |-> TRUE],
                [rsi_oversold |-> 40, rsi_overbought |-> 80, cross_enabled |-> FALSE]}}

Kwargs ==
    {[rsi_oversold |-> 20, rsi_overbought |-> 60, cross_enabled |-> TRUE],
     [name |-> "Apple", colour |-> "red"]}

WlInit ==
    /\ wl_file \in {NoFile, NotJson,
                    JArray(<<JString("AAPL"), JString("MSFT")>>),
                    save(add(<<>>, StockAlert("AAPL")))}
    /\ wl_mgr = [m \in Managers |-> None]
    /\ wl_last = [op |-> "none"]
    /\ wl_ops = 0

WlIdle ==
    /\ wl_file = NoFile
    /\ wl_mgr = <<>>
    /\ wl_last = [op |-> "idle"]
    /\ wl_ops = 0

\* WatchlistManager(filepath): when load raises there is no instance
WlOpen ==
    \E m \in Managers :
        /\ wl_ops < MaxOps
        /\ wl_mgr # <<>>
        /\ wl_mgr[m] = None
        /\ LET r == NewManager(wl_file)
           IN  /\ wl_mgr' = [wl_mgr EXCEPT ![m] = IF r.raised = "none" THEN Some(r.stocks)
                                                  ELSE None]
               /\ wl_last' = [op |-> "open", m |-> m, raised |-> r.raised]
        /\ wl_ops' = wl_ops + 1
        /\ UNCHANGED wl_file
        /\ UNCHANGED NotWl

\* manager.load() on an instance
WlLoad ==
    \E m \in Managers :
        /\ wl_ops < MaxOps
        /\ wl_mgr # <<>>
        /\ wl_mgr[m] # None
        /\ LET r == load(wl_file, wl_mgr[m][1])
           IN  /\ wl_mgr' = [wl_mgr EXCEPT ![m] = Some(r.stocks)]
               /\ wl_last' = [op |-> "load", m |-> m, raised |-> r.raised]
        /\ wl_ops' = wl_ops + 1
        /\ UNCHANGED wl_file
        /\ UNCHANGED NotWl

\* an add that reads the file again before it changes the collection
WlAdd_Reload ==
    \E m \in Managers, stock \in NewStocks :
        /\ wl_ops < MaxOps
        /\ wl_mgr # <<>>
        /\ wl_mgr[m] # None
        /\ LET stocks == add(load(wl_file, wl_mgr[m][1]).stocks, stock)
           IN  /\ wl_mgr' = [wl_mgr EXCEPT ![m] = Some(stocks)]
               /\ wl_file' = save(stocks)
        /\ wl_last' = [op |-> "add", m |-> m, stock |-> stock]
        /\ wl_ops' = wl_ops + 1
        /\ UNCHANGED NotWl

\* manager.add(stock): the collection is written to the file
WlAdd ==
    \E m \in Managers, stock \in NewStocks :
        /\ wl_ops < MaxOps
        /\ wl_mgr # <<>>
        /\ wl_mgr[m] # None
        /\ LET stocks == add(wl_mgr[m][1], stock)
           IN  /\ wl_mgr' = [wl_mgr EXCEPT ![m] = Some(stocks)]
               /\ wl_file' = save(stocks)
        /\ wl_last' = [op |-> "add", m |-> m, stock |-> stock]
        /\ wl_ops' = wl_ops + 1
        /\ UNCHANGED NotWl

\* manager.update(ticker, **kwargs): written only when the ticker is there
WlUpdate ==
    \E m \in Managers, ticker \in Tickers, kwargs \in Kwargs :
        /\ wl_ops < MaxOps
        /\ wl_mgr # <<>>
        /\ wl_mgr[m] # None
        /\ LET r == update(wl_mgr[m][1], ticker, kwargs)
           IN  /\ wl_mgr' = [wl_mgr EXCEPT ![m] = Some(r.stocks)]
               /\ wl_file' = IF r.saved THEN save(r.stocks) ELSE wl_file
               /\ wl_last' = [op |-> "update", m |-> m, ticker |-> ticker, returned |-> r.saved]
        /\ wl_ops' = wl_ops + 1
        /\ UNCHANGED NotWl

\* manager.remove(ticker): written only when the ticker is there
WlRemove ==
    \E m \in Managers, ticker \in Tickers :
        /\ wl_ops < MaxOps
        /\ wl_mgr # <<>>
        /\ wl_mgr[m] # None
        /\ LET r == remove(wl_mgr[m][1], ticker)
           IN  /\ wl_mgr' = [wl_mgr EXCEPT ![m] = Some(r.stocks)]
               /\ wl_file' = IF r.saved THEN save(r.stocks) ELSE wl_file
               /\ wl_last' = [op |-> "remove", m |-> m, ticker |-> ticker, returned |-> r.saved]
        /\ wl_ops' = wl_ops + 1
        /\ UNCHANGED NotWl

\* the process ends: the instances are gone, the file stays
WlRestart ==
    /\ wl_ops < MaxOps
    /\ wl_mgr # <<>>
    /\ \E m \in Managers : wl_mgr[m] # None
    /\ wl_mgr' = [m \in Managers |-> None]
    /\ wl_last' = [op |-> "restart"]
    /\ wl_ops' = wl_ops + 1
    /\ UNCHANGED wl_file
    /\ UNCHANGED NotWl

WlNext == WlOpen \/ WlLoad \/ WlAdd \/ WlUpdate \/ WlRemove \/ WlRestart

\* ------------------------------------------------------------ indicators
MaxLen == 4
MaxWindow == 5

InInit ==
    /\ \E n \in 0..MaxLen : in_data \in Series(n)
    /\ in_window = 0
    /\ in_pc = "call"
    /\ in_fn = None
    /\ in_out = <<>>

InIdle ==
    /\ in_data = <<>>
    /\ in_window = 0
    /\ in_pc = "idle"
    /\ in_fn = None
    /\ in_out = <<>>

InReturn(fn, window, out) ==
    /\ in_fn' = Some(fn)
    /\ in_window' = window
    /\ in_out' = out
    /\ in_pc' = "done"
    /\ UNCHANGED in_data
    /\ UNCHANGED NotIn

InSma ==
    /\ in_pc = "call"
    /\ \E window \in 1..MaxWindow :
          InReturn("calculate_sma", window, calculate_sma(in_data, window))

InEma ==
    /\ in_pc = "call"
    /\ \E window \in 1..MaxWindow :
          InReturn("calculate_ema", window, calculate_ema(in_data, window))

InRsi ==
    /\ in_pc = "call"
    /\ \E window \in 1..MaxWindow :
          InReturn("calculate_rsi", window, calculate_rsi(in_data, window))

InBollinger ==
    /\ in_pc = "call"
    /\ \E window \in 1..MaxWindow :
          InReturn("calculate_bollinger_bands", window,
                   calculate_bollinger_bands(in_data, window, R(2)))

InAll ==
    /\ in_pc = "call"
    /\ InReturn("add_all_indicators", 0, add_all_indicators(in_data))

InNext == InSma \/ InEma \/ InRsi \/ InBollinger \/ InAll

\* ---------------------------------------------------------------- scheduler
MaxPolls == 3

\* the frames the provider returns for AAPL at a poll: none, an RSI of 20, an
\* RSI of 35, of 80, a golden cross on the last two rows, a dead cross, and
\* averages that do not cross
DeadFrame == [BaseFrame(2) EXCEPT !.SMA_25 = <<R(3), R(1)>>, !.SMA_75 = <<R(2), R(2)>>]

PollFrames ==
    {None, Some(OversoldFrame), Some([BaseFrame(2) EXCEPT !.RSI = <<R(20), R(35)>>]),
     Some([BaseFrame(1) EXCEPT !.RSI = <<R(80)>>]), Some(GoldenFrame), Some(DeadFrame),
     Some([BaseFrame(2) EXCEPT !.SMA_25 = <<R(3), R(3)>>, !.SMA_75 = <<R(2), R(2)>>])}

\* the watchlists the settings page can leave in watchlist.json, and a legacy
\* flat list
PollFiles ==
    {JObject([stocks |-> JArray(<<Item("AAPL", st), JObject([ticker |-> "MSFT"])>>)]) :
        st \in {[rsi_oversold |-> 30, rsi_overbought |-> 70, cross_enabled |-> TRUE],
                [rsi_oversold |-> 40, rsi_overbought |-> 80, cross_enabled |-> FALSE]}}
    \cup {JArray(<<JString("AAPL"), JString("MSFT")>>)}

ScInit ==
    /\ sc_json \in PollFiles
    /\ sc_pc = "running"
    /\ sc_polls = <<>>
    /\ sc_sent = <<>>

ScIdle ==
    /\ sc_json = NoFile
    /\ sc_pc = "idle"
    /\ sc_polls = <<>>
    /\ sc_sent = <<>>

\* a run of job that sends an alert only when the previous run did not send it
ScJob_Dedup ==
    \E f \in PollFrames :
        /\ sc_pc = "running"
        /\ Len(sc_polls) < MaxPolls
        /\ LET fetches == [t \in {"AAPL", "MSFT"} |->
                              IF t = "AAPL" THEN f ELSE Some(OversoldFrame)]
               due     == job(sc_json, None, fetches)
               before  == IF sc_sent = <<>> THEN <<>> ELSE Last(sc_sent)
           IN  /\ sc_polls' = Append(sc_polls, [json |-> sc_json, fetches |-> fetches])
               /\ sc_sent' = Append(sc_sent,
                                    SelectSeq(due, LAMBDA a :
                                        \A n \in 1..Len(before) : before[n] # a))
        /\ UNCHANGED <<sc_json, sc_pc>>
        /\ UNCHANGED NotSc

\* schedule runs job: once at the start, then every hour.  MSFT stays
\* oversold; what the provider returns for AAPL changes from run to run.
ScJob ==
    \E f \in PollFrames :
        /\ sc_pc = "running"
        /\ Len(sc_polls) < MaxPolls
        /\ LET fetches == [t \in {"AAPL", "MSFT"} |->
                              IF t = "AAPL" THEN f ELSE Some(OversoldFrame)]
           IN  /\ sc_polls' = Append(sc_polls, [json |-> sc_json, fetches |-> fetches])
               /\ sc_sent' = Append(sc_sent, job(sc_json, None, fetches))
        /\ UNCHANGED <<sc_json, sc_pc>>
        /\ UNCHANGED NotSc

\* between two runs the settings page rewrites watchlist.json
ScEdit ==
    /\ sc_pc = "running"
    /\ Len(sc_polls) < MaxPolls
    /\ sc_json' \in PollFiles \ {sc_json}
    /\ UNCHANGED <<sc_pc, sc_polls, sc_sent>>
    /\ UNCHANGED NotSc

ScNext == ScJob \/ ScEdit

\* ------------------------------------------------------- specifications
InitBacktest == BtInit /\ PfIdle /\ SgIdle /\ AlIdle /\ OiIdle /\ WlIdle /\ InIdle /\ ScIdle
SpecBacktest == InitBacktest /\ [][BtNext]_vars

InitPortfolio == PfInit /\ BtIdle /\ SgIdle /\ AlIdle /\ OiIdle /\ WlIdle /\ InIdle /\ ScIdle
SpecPortfolio == InitPortfolio /\ [][PfNext]_vars

InitSignals == SgInit /\ BtIdle /\ PfIdle /\ AlIdle /\ OiIdle /\ WlIdle /\ InIdle /\ ScIdle
SpecSignals == InitSignals /\ [][SgNext]_vars

InitAlerts == AlInit /\ BtIdle /\ PfIdle /\ SgIdle /\ OiIdle /\ WlIdle /\ InIdle /\ ScIdle
SpecAlerts == InitAlerts /\ [][AlNext]_vars

InitOrder == OiInit /\ BtIdle /\ PfIdle /\ SgIdle /\ AlIdle /\ WlIdle /\ InIdle /\ ScIdle
SpecOrder == InitOrder /\ [][OiNext]_vars

InitWatchlist == WlInit /\ BtIdle /\ PfIdle /\ SgIdle /\ AlIdle /\ OiIdle /\ InIdle /\ ScIdle
SpecWatchlist == InitWatchlist /\ [][WlNext]_vars

InitIndicators == InInit /\ BtIdle /\ PfIdle /\ SgIdle /\ AlIdle /\ OiIdle /\ WlIdle /\ ScIdle
SpecIndicators == InitIndicators /\ [][InNext]_vars

InitScheduler == ScInit /\ BtIdle /\ PfIdle /\ SgIdle /\ AlIdle /\ OiIdle /\ WlIdle /\ InIdle
SpecScheduler == InitScheduler /\ [][ScNext]_vars

\* ------------------------------------------------- properties: backtest
IntSum(lo, hi) == SumRange(history, lo, hi)[1]

\* SMA_25 > SMA_75 at row k, from the fetched prices (sums cross-multiplied)
ShortOver(k) ==
    /\ k >= LongWindow
    /\ IntSum(k - ShortWindow + 1, k) * LongWindow > IntSum(k - LongWindow + 1, k) * ShortWindow

ShortUnder(k) ==
    /\ k >= LongWindow
    /\ IntSum(k - ShortWindow + 1, k) * LongWindow < IntSum(k - LongWindow + 1, k) * ShortWindow

BothDefined(k) == k >= LongWindow /\ k >= ShortWindow

Unchanged3 == UNCHANGED <<current_trade, trades, equity_curve>>

\* C1: during the scan at most one position is open: a golden_cross row opens
\* a trade only when flat, a dead_cross row closes one only when long, a
\* golden_cross while long and a dead_cross while flat change nothing, and the
\* position only alternates flat -> long (on a golden cross) -> flat (on a dead cross).
C1_ScanStep ==
    (pc = "scan" /\ i' = i + 1) =>
        LET d      == df[1]
            golden == d.golden_cross[i]
            dead   == d.dead_cross[i]
        IN  /\ (golden /\ current_trade = None) =>
                   /\ current_trade' = Some(NewTrade(i, d.Close[i]))
                   /\ UNCHANGED <<trades, equity_curve>>
            /\ (dead /\ current_trade # None) =>
                   /\ current_trade' = None
                   /\ Len(trades') = Len(trades) + 1
                   /\ SubSeq(trades', 1, Len(trades)) = trades
                   /\ Last(trades').entry_date = current_trade[1].entry_date
                   /\ Last(trades').exit_date = Some(i)
            /\ (golden /\ current_trade # None) => Unchanged3
            /\ (dead /\ current_trade = None) => Unchanged3
            /\ (~golden /\ ~dead) => Unchanged3
            /\ (current_trade = None /\ current_trade' # None) => golden
            /\ (current_trade # None /\ current_trade' = None) => dead
            /\ \A n \in 1..Len(trades') : trades'[n].exit_date # None

C1_OnePosition == [][C1_ScanStep]_vars

\* a golden cross arrives while a position is open
C1_Witness ==
    /\ pc = "scan"
    /\ i =< Len(df[1].Close)
    /\ current_trade # None
    /\ df[1].golden_cross[i]

\* C2: when the scan ends with a position open, that trade is closed at the
\* last bar's Close and date and appended to the ledger: the trade count is the
\* number of dead-cross closes plus one, and the trade is in the equity curve
\* and in the result.
C2_ForcedClose ==
    (pc = "done" /\ current_trade # None) =>
        LET d == df[1]
            n == Len(d.Close)
            m == Len(trades)
        IN  /\ m >= 1
            /\ trades[m] = current_trade[1]
            /\ trades[m].exit_date = Some(n)
            /\ trades[m].exit_price = Some(history[n])
            /\ m = Cardinality({k \in 1..m : d.dead_cross[trades[k].exit_date[1]]}) + 1
            /\ Len(equity_curve) = m + 1
            /\ equity_curve[m + 1] =
                   RDiv(RMul(equity_curve[m], history[n]), trades[m].entry_price)
            /\ result # None
            /\ result[1].total_trades = m
            /\ result[1].trades = trades

\* a forced close after an earlier dead-cross close
C2_Witness ==
    /\ pc = "done"
    /\ current_trade # None
    /\ Len(trades) >= 2

\* no trade of the ledger is open when row k is reached
FlatAt(k) ==
    \A n \in 1..Len(trades) : ~(trades[n].entry_date < k /\ trades[n].exit_date[1] >= k)

CrossesUpAt(k) == k > 1 /\ ShortOver(k) /\ BothDefined(k - 1) /\ ~ShortOver(k - 1)

FirstUnderAfter(k, j) == j > k /\ ShortUnder(j) /\ \A m \in (k + 1)..(j - 1) : ~ShortUnder(m)

PctReturn(entry, exit) == Rat((exit[1] - entry[1]) * 100, entry[1])

\* C3: when SMA_25 goes from <= SMA_75 to > SMA_75 at bar k while flat and first
\* falls below SMA_75 at bar j > k, the ledger holds exactly one trade entered
\* at k: entry Close[k], exit date j, exit Close[j], return (Close[j] - Close[k])
\* / Close[k] * 100; the equity starts at 100 and is multiplied by
\* (1 + return / 100) per trade.
C3_CrossTrade ==
    (pc = "done" /\ df # None) =>
        /\ \A k, j \in 1..Len(history) :
              (CrossesUpAt(k) /\ FlatAt(k) /\ FirstUnderAfter(k, j)) =>
                  /\ Cardinality({n \in 1..Len(trades) : trades[n].entry_date = k}) = 1
                  /\ \E n \in 1..Len(trades) :
                        /\ trades[n] = [entry_date |-> k, entry_price |-> history[k],
                                        exit_date |-> Some(j), exit_price |-> Some(history[j])]
                        /\ ReturnPct(trades[n]) = Some(PctReturn(history[k], history[j]))
        /\ equity_curve[1] = R(100)
        /\ Len(equity_curve) = Len(trades) + 1
        /\ \A n \in 1..Len(trades) :
              equity_curve[n + 1] =
                  RMul(equity_curve[n],
                       RAdd(R(1), RDiv(PctReturn(trades[n].entry_price,
                                                 trades[n].exit_price[1]), R(100))))

\* a trade entered on a golden cross and closed by a later dead cross at a different price
C3_Witness ==
    /\ pc = "done"
    /\ \E n \in 1..Len(trades), k, j \in 1..Len(history) :
          /\ CrossesUpAt(k) /\ FlatAt(k) /\ FirstUnderAfter(k, j)
          /\ trades[n].entry_date = k
          /\ j > k + 1
          /\ history[j] # history[j - 1]
          /\ history[j] # history[k]

\* the running maximum of the equity curve up to point n, and the drawdown there
RunningMax(n) ==
    CHOOSE m \in {equity_curve[k] : k \in 1..n} :
        \A k \in 1..n : Ge(m, equity_curve[k])

DrawdownAt(n) ==
    Rat((equity_curve[n][1] * RunningMax(n)[2] - RunningMax(n)[1] * equity_curve[n][2]) * 100,
        equity_curve[n][2] * RunningMax(n)[1])

IsWin(t) == t.exit_price # None /\ Gt(t.exit_price[1], t.entry_price)

\* C4: the aggregates of a returned BacktestResult are those of its ledger:
\* total_trades = len(trades), winning_trades = trades with return_pct > 0,
\* winning + losing = total, win_rate = winning / total * 100, total_return =
\* (final equity / 100 - 1) * 100, max_drawdown = the least drawdown over the
\* equity curve, and it is <= 0.
C4_Aggregates ==
    (pc = "done" /\ result # None) =>
        LET r    == result[1]
            wins == {n \in 1..Len(r.trades) : Gt(ReturnPct(r.trades[n])[1], R(0))}
            eqs  == 1..Len(equity_curve)
        IN  /\ r.trades = trades
            /\ r.total_trades = Len(r.trades)
            /\ r.total_trades >= 1
            /\ r.winning_trades = Cardinality(wins)
            /\ wins = {n \in 1..Len(r.trades) : IsWin(r.trades[n])}
            /\ r.winning_trades + r.losing_trades = r.total_trades
            /\ r.win_rate = Rat(r.winning_trades * 100, r.total_trades)
            /\ r.total_return =
                   Rat(Last(equity_curve)[1] - 100 * Last(equity_curve)[2],
                       Last(equity_curve)[2])
            /\ \E n \in eqs : r.max_drawdown = DrawdownAt(n)
            /\ \A n \in eqs : Le(r.max_drawdown, DrawdownAt(n))
            /\ Le(r.max_drawdown, R(0))

\* a result with a winning trade, a losing trade and a real drawdown
C4_Witness ==
    /\ pc = "done"
    /\ result # None
    /\ result[1].winning_trades >= 1
    /\ result[1].losing_trades >= 1
    /\ Lt(result[1].max_drawdown, R(0))

\* C5: for an empty series or one of fewer than MinBars bars run_backtest_single
\* returns None without raising, and simulates nothing: no frame, no scan, no trade.
C5_ShortSeries ==
    (~fetch_raises /\ Len(history) < MinBars) =>
        /\ outcome # "raised"
        /\ pc \in {"fetch", "done"}
        /\ df = None /\ i = 0 /\ trades = <<>> /\ current_trade = None
        /\ (pc = "done" => (result = None /\ outcome = "returned"))

\* a returned call on a short series whose last bar is a golden cross
C5_Witness ==
    /\ pc = "done"
    /\ ~fetch_raises
    /\ Len(history) = MinBars - 1
    /\ CrossesUpAt(Len(history))
    /\ result = None

\* ------------------------------------------------ properties: portfolio
\* the tickers handed to run_backtest_portfolio are 1 .. Len(market)
Attempted == 1..Min(max_stocks, Len(market))

Failed(k) == market[k].raises
Skipped(k) == ~market[k].raises /\ Len(market[k].history) < MinBars
Yields(k) == RunBacktestSingle(k, market[k]).result # None

\* C6: a symbol whose backtest fails or yields nothing does not abort the run:
\* each of the first max_stocks tickers is attempted, in order, and the result
\* of every symbol that has one is in the output.
C6_NoAbort ==
    /\ pf_pc # "raised"
    /\ pf_pc = "done" =>
          /\ calls = [k \in Attempted |-> k]
          /\ IF "error" \in DOMAIN output[1]
             THEN \A k \in Attempted : ~Yields(k)
             ELSE /\ \A k \in Attempted :
                        Yields(k) =>
                            \E m \in 1..Len(output[1].all_results) :
                                output[1].all_results[m] =
                                    RunBacktestSingle(k, market[k]).result[1]
                  /\ \A m \in 1..Len(output[1].all_results) :
                        output[1].all_results[m].ticker \in Attempted
                  /\ \A m \in 2..Len(output[1].all_results) :
                        output[1].all_results[m - 1].ticker < output[1].all_results[m].ticker

\* a run in which a symbol that raises and one that is skipped precede one with a result
C6_Witness ==
    /\ pf_pc = "done"
    /\ "all_results" \in DOMAIN output[1]
    /\ \E a, b, c \in Attempted : a < b /\ b < c /\ Failed(a) /\ Skipped(b) /\ Yields(c)

\* C7 as claimed: the count of errors holds the true failures only, the symbols
\* skipped for insufficient history being counted apart from them.
C7_SeparateCounts ==
    (pf_pc = "done" /\ "summary" \in DOMAIN output[1]) =>
        output[1].summary.stocks_with_errors = Cardinality({k \in Attempted : Failed(k)})

SummaryFields ==
    {"stocks_analyzed", "stocks_with_errors", "total_trades", "winning_trades",
     "losing_trades", "overall_win_rate", "avg_return_per_trade",
     "avg_win_rate_per_stock", "avg_max_drawdown"}

\* C7 amended: skipped symbols and failed symbols go to one count: every
\* attempted symbol without a result, whatever the reason, adds one to
\* stocks_with_errors, which is the only count of them in the output.
C7_OneErrorCount ==
    /\ pf_pc = "loop" =>
          errors = Cardinality({k \in 1..pf_i : ~Yields(k)})
    /\ (pf_pc = "done" /\ "summary" \in DOMAIN output[1]) =>
          LET sm == output[1].summary
          IN  /\ sm.stocks_with_errors = Cardinality({k \in Attempted : ~Yields(k)})
              /\ {k \in Attempted : Failed(k) \/ Skipped(k)} \subseteq {k \in Attempted : ~Yields(k)}
              /\ sm.stocks_analyzed + sm.stocks_with_errors = Cardinality(Attempted)
              /\ DOMAIN sm = SummaryFields

\* a finished run with a skipped symbol, a failed symbol and a result
C7_Witness ==
    /\ pf_pc = "done"
    /\ "summary" \in DOMAIN output[1]
    /\ \E a, b \in Attempted : Failed(a) /\ Skipped(b)

\* -------------------------------------------------- properties: signals
Called(fn) == sg_pc = "done" /\ sg_call[1].fn = fn

Defined(col, k) == frame[col][k][2] # 0

\* short > long at row k of the frame (false when either is undefined)
Above(short_ma, long_ma, k) ==
    /\ Defined(short_ma, k) /\ Defined(long_ma, k)
    /\ frame[short_ma][k][1] * frame[long_ma][k][2] > frame[long_ma][k][1] * frame[short_ma][k][2]

Emitted(type, k) ==
    {n \in 1..Len(signals) : signals[n].signal_type = type /\ signals[n].date = k}

\* C8: detect_ma_crossovers emits golden_cross at a row exactly when
\* (short > long) is false at the previous row and true at this one, dead_cross
\* exactly when it is true at the previous row and false at this one, and
\* nothing at a row where it is unchanged.
C8_TransitionRule ==
    Called("detect_ma_crossovers") =>
        LET s == sg_call[1].short_ma
            l == sg_call[1].long_ma
        IN  \A k \in 1..Rows(frame) :
                /\ Emitted("golden_cross", k) # {} <=>
                       (k > 1 /\ ~Above(s, l, k - 1) /\ Above(s, l, k))
                /\ Emitted("dead_cross", k) # {} <=>
                       (k > 1 /\ Above(s, l, k - 1) /\ ~Above(s, l, k))

\* C9: in the detector's output no row carries both a golden_cross and a
\* dead_cross, and no golden_cross or dead_cross is dated at a row where a
\* moving average of its pair is undefined (detect_ma_crossovers and
\* detect_all_signals, which scans both pairs).
C9_ExclusiveAndDefined ==
    (Called("detect_ma_crossovers") \/ Called("detect_all_signals")) =>
        /\ \A k \in 1..Rows(frame) :
              Emitted("golden_cross", k) = {} \/ Emitted("dead_cross", k) = {}
        /\ \A n \in 1..Len(signals) :
              signals[n].signal_type \in {"golden_cross", "dead_cross"} =>
                  /\ Defined(signals[n].description[1], signals[n].date)
                  /\ Defined(signals[n].description[2], signals[n].date)

RsiBelow(k, th) == Defined("RSI", k) /\ frame.RSI[k][1] < th[1] * frame.RSI[k][2]
RsiAbove(k, th) == Defined("RSI", k) /\ frame.RSI[k][1] > th[1] * frame.RSI[k][2]
RsiIs(k, th) == Defined("RSI", k) /\ frame.RSI[k][1] = th[1] * frame.RSI[k][2]

Recovers(k, oversold) ==
    k > 1 /\ RsiBelow(k - 1, oversold) /\ (RsiAbove(k, oversold) \/ RsiIs(k, oversold))

Declines(k, overbought) ==
    k > 1 /\ RsiAbove(k - 1, overbought) /\ (RsiBelow(k, overbought) \/ RsiIs(k, overbought))

\* C10: detect_rsi_signals detects transitions: one rsi_oversold at a row
\* exactly when the previous RSI < oversold and the current RSI >= oversold, one
\* rsi_overbought exactly when the previous RSI > overbought and the current
\* RSI <= overbought; rows inside a run below (above) the threshold and rows
\* whose current or previous RSI is undefined emit nothing.
C10_RsiTransitions ==
    Called("detect_rsi_signals") =>
        LET lo == sg_call[1].oversold
            hi == sg_call[1].overbought
        IN  /\ \A k \in 1..Rows(frame) :
                  /\ Cardinality(Emitted("rsi_oversold", k)) = IF Recovers(k, lo) THEN 1 ELSE 0
                  /\ Cardinality(Emitted("rsi_overbought", k)) = IF Declines(k, hi) THEN 1 ELSE 0
                  /\ (~Defined("RSI", k) \/ k = 1 \/ ~Defined("RSI", k - 1)) =>
                         \A n \in 1..Len(signals) : signals[n].date # k
            /\ \A n \in 1..Len(signals) :
                  /\ signals[n].signal_type \in {"rsi_oversold", "rsi_overbought"}
                  /\ signals[n].price = frame.Close[signals[n].date]
                  /\ signals[n].is_bullish = (signals[n].signal_type = "rsi_oversold")

\* two rows below the threshold, silent, then the row that crosses back, which
\* signals; and a row after an undefined RSI
C10_Witness ==
    /\ Called("detect_rsi_signals")
    /\ \E k \in 3..Rows(frame) :
          /\ RsiBelow(k - 2, sg_call[1].oversold)
          /\ RsiBelow(k - 1, sg_call[1].oversold)
          /\ Emitted("rsi_oversold", k - 1) = {}
          /\ Emitted("rsi_oversold", k) # {}
    /\ \E k \in 2..Rows(frame) : ~Defined("RSI", k - 1) /\ Defined("RSI", k)

\* --------------------------------------------- properties: merged signals
Count(seq, x) == Cardinality({n \in 1..Len(seq) : seq[n] = x})

Range(seq) == {seq[n] : n \in 1..Len(seq)}

\* the five scans over the trailing rows, each on its own
SubScans(recent) ==
    <<detect_ma_crossovers(recent, "SMA_25", "SMA_75"),
      detect_ma_crossovers(recent, "SMA_5", "SMA_25"),
      detect_rsi_signals(recent, R(OVERSOLD), R(OVERBOUGHT)),
      detect_macd_signals(recent),
      detect_bollinger_signals(recent)>>

\* C11: detect_all_signals returns the union, with multiplicity and without
\* deduplication across detector kinds, of the signals of the five sub-detector
\* scans over the trailing lookback_days rows, ordered so that dates never
\* increase from one element to the next; two kinds fired on one bar both appear.
C11_MergedUnion ==
    Called("detect_all_signals") =>
        LET parts == SubScans(TailRows(frame, sg_call[1].lookback_days))
            every == UNION {Range(parts[j]) : j \in 1..5} \cup Range(signals)
        IN  /\ Len(signals) = Len(parts[1]) + Len(parts[2]) + Len(parts[3])
                              + Len(parts[4]) + Len(parts[5])
            /\ \A x \in every :
                   Count(signals, x) = Count(parts[1], x) + Count(parts[2], x)
                                       + Count(parts[3], x) + Count(parts[4], x)
                                       + Count(parts[5], x)
            /\ \A n \in 1..(Len(signals) - 1) : signals[n].date >= signals[n + 1].date
            /\ \A j1, j2 \in 1..5 : \A n1 \in 1..Len(parts[j1]) : \A n2 \in 1..Len(parts[j2]) :
                   (parts[j1][n1].date = parts[j2][n2].date
                    /\ parts[j1][n1].signal_type # parts[j2][n2].signal_type)
                   => {parts[j1][n1], parts[j2][n2]} \subseteq Range(signals)

\* a merged list with two kinds on one bar, two different bars, and a frame
\* longer than the lookback
C11_Witness ==
    /\ Called("detect_all_signals")
    /\ sg_call[1].lookback_days < Rows(frame)
    /\ \E n, m \in 1..Len(signals) :
           /\ signals[n].date = signals[m].date
           /\ signals[n].signal_type # signals[m].signal_type
    /\ \E n, m \in 1..Len(signals) : signals[n].date > signals[m].date
    /\ \E n \in 1..Len(signals) : signals[n].signal_type = "bb_upper_touch"
    /\ \E n \in 1..Len(signals) : signals[n].signal_type = "macd_bullish"

\* C12: running detect_all_signals twice over the same IndicatorFrame yields
\* two identical ordered signal lists, and the frame passed in is left
\* unchanged by a run: the detectors write their helper columns to copies.
C12_Step ==
    /\ frame' = frame
    /\ sg_pc' = "repeated" => again' = Some(signals)

NewAlerts == SubSeq(all_alerts', Len(all_alerts) + 1, Len(all_alerts'))

NewOfType(type) == Cardinality({k \in 1..Len(NewAlerts) : NewAlerts[k].alert_type = type})

\* C13: the Alert Evaluator's RSI checks are level-based with per-symbol
\* thresholds: check_stock emits rsi_oversold whenever the latest RSI is defined
\* and strictly below the symbol's rsi_oversold, and rsi_overbought whenever it
\* is strictly above the symbol's rsi_overbought, whatever the previous row's
\* RSI; an RSI equal to the threshold or undefined emits no alert.  (The
\* thresholds are numbers; a symbol stored with a null threshold is the
\* subject of C22.)
C13_CheckStep ==
    (al_pc = "loop" /\ al_i' = al_i + 1) =>
        LET stock   == al_stocks[al_i + 1]
            fetched == al_market[Upper(stock.ticker)]
        IN  (fetched # None /\ stock.rsi_oversold # Null /\ stock.rsi_overbought # Null) =>
                LET d      == fetched[1]
                    rsi    == d.RSI[Rows(d)]
                    below  == rsi[2] # 0 /\ rsi[1] < stock.rsi_oversold * rsi[2]
                    above  == rsi[2] # 0 /\ rsi[1] > stock.rsi_overbought * rsi[2]
                IN  /\ NewOfType("rsi_oversold") = IF below THEN 1 ELSE 0
                    /\ NewOfType("rsi_overbought") = IF above THEN 1 ELSE 0
                    /\ \A k \in 1..Len(NewAlerts) : NewAlerts[k].ticker = stock.ticker

C13_LevelBased == [][C13_CheckStep]_vars

\* an alert at a symbol's own threshold (40) for an RSI of 30 that was already
\* below it on the previous row
C13_Witness ==
    /\ al_i >= 1
    /\ al_checked[1].rsi_oversold = 40
    /\ al_market[Upper(al_checked[1].ticker)] # None
    /\ LET d == al_market[Upper(al_checked[1].ticker)][1]
       IN  Rows(d) = 2 /\ d.RSI[1] = R(20) /\ d.RSI[2] = R(30)
    /\ \E k \in 1..Len(all_alerts) :
           /\ all_alerts[k].alert_type = "rsi_oversold"
           /\ all_alerts[k].ticker = al_checked[1].ticker

\* --------------------------------------------- properties: order sizing
\* the call got a positive price and a history
Quoted == ~oi_quote.info_raises /\ oi_quote.price # None /\ oi_quote.low # None
          /\ Gt(oi_quote.price[1], R(0))

\* the defined Low values of the trailing lookback_days rows
RecentLows ==
    LET low == oi_quote.low[1]
    IN  {low[k] : k \in {j \in 1..Len(low) : j > Len(low) - oi_args.lookback_days
                                             /\ ~IsNaN(low[j])}}

SwingLow == IF RecentLows = {} THEN NaN
            ELSE CHOOSE v \in RecentLows : \A w \in RecentLows : Le(v, w)

\* swing_low * (1 - stop_loss_buffer / 100)
StopLoss == RMul(SwingLow, RDiv(RSub(R(100), oi_args.stop_loss_buffer), R(100)))

RiskPerShare == RSub(oi_quote.price[1], StopLoss)

\* total_assets * risk_percent / 100
RiskAmount == RDiv(RMul(oi_args.total_assets, oi_args.risk_percent), R(100))

Quotient == RDiv(RiskAmount, RiskPerShare)

\* n is x rounded down / rounded toward zero
IsFloorOf(n, x) == Le(R(n), x) /\ Lt(x, R(n + 1))

IsTruncOf(n, x) == IF Ge(x, R(0)) THEN IsFloorOf(n, x)
                   ELSE Lt(R(n - 1), x) /\ Le(x, R(n))

\* C14: calculate_order_info fails with an error and returns no OrderInfo
\* whenever risk_per_share = current_price - stop_loss_price is <= 0; it never
\* returns an OrderInfo whose stop-loss is at or above the current price, so a
\* sizing failure (an exception) is distinguishable from a position of zero
\* shares (an OrderInfo).
C14_BadStopFails ==
    oi_pc = "done" =>
        /\ (Quoted /\ Le(RiskPerShare, R(0))) => (oi_raised = "ValueError" /\ oi_order = None)
        /\ oi_order # None =>
               /\ oi_raised = "none"
               /\ Lt(oi_order[1].stop_loss_price, oi_order[1].current_price)
        /\ oi_order = None <=> oi_raised # "none"

\* a failure because the stop equals the price
C14_Witness ==
    /\ oi_pc = "done"
    /\ Quoted
    /\ RiskPerShare = R(0)
    /\ oi_raised = "ValueError"

\* C15 as stated: position_size_shares = floor(risk_amount / risk_per_share)
\* on every input on which calculate_order_info returns, position_size_value =
\* shares * current_price, and the scenario 100000 / 2 / 100 / 90 / 5 gives
\* 85.5, 14.5, 2000 and 137.
C15_FloorOnEveryInput ==
    (oi_pc = "done" /\ oi_order # None) =>
        /\ IsFloorOf(oi_order[1].position_size_shares, Quotient)
        /\ oi_order[1].position_size_value
               = RMul(R(oi_order[1].position_size_shares), oi_quote.price[1])

Scenario ==
    /\ oi_args.total_assets = R(100000) /\ oi_args.risk_percent = R(2)
    /\ oi_args.stop_loss_buffer = R(5)
    /\ Quoted /\ oi_quote.price[1] = R(100) /\ SwingLow = R(90)

\* C15: on every input on which calculate_order_info returns,
\* position_size_shares is risk_amount / risk_per_share rounded toward zero
\* (int()), which is its floor whenever risk_amount >= 0, with risk_amount =
\* total_assets * risk_percent / 100 and risk_per_share = current_price -
\* swing_low * (1 - stop_loss_buffer / 100); position_size_value = shares *
\* current_price; the scenario 100000 / 2 / 100 / 90 / 5 gives stop_loss_price
\* 85.5, risk_per_share 14.5, risk_amount 2000 and 137 shares.
C15_TruncatedQuotient ==
    (oi_pc = "done" /\ oi_order # None) =>
        LET o == oi_order[1]
        IN  /\ IsTruncOf(o.position_size_shares, Quotient)
            /\ Ge(RiskAmount, R(0)) => IsFloorOf(o.position_size_shares, Quotient)
            /\ o.risk_amount = RiskAmount
            /\ o.stop_loss_price = StopLoss
            /\ o.position_size_value = RMul(R(o.position_size_shares), oi_quote.price[1])
            /\ Scenario =>
                   /\ o.stop_loss_price = Rat(171, 2)
                   /\ RiskPerShare = Rat(29, 2)
                   /\ o.risk_amount = R(2000)
                   /\ o.position_size_shares = 137

C15_Witness ==
    /\ oi_pc = "done"
    /\ oi_order # None
    /\ Scenario
    /\ oi_order[1].position_size_shares = 137

\* C16: the order-sizing result is not capped by the account: whenever
\* calculate_order_info returns for a positive account and risk_per_share is
\* so small that (risk_amount / risk_per_share - 1) * current_price exceeds
\* total_assets, the returned position_size_value exceeds total_assets; such
\* inputs exist (100000 / 2 / 100 / swing low 104 / 5 gives 1666 shares worth
\* 166600).
C16_NotCapped ==
    (oi_pc = "done" /\ Quoted /\ Gt(RiskPerShare, R(0)) /\ Gt(oi_args.total_assets, R(0))
     /\ Gt(RMul(RSub(Quotient, R(1)), oi_quote.price[1]), oi_args.total_assets)) =>
        /\ oi_order # None
        /\ Gt(oi_order[1].position_size_value, oi_args.total_assets)

C16_Witness ==
    /\ oi_pc = "done"
    /\ oi_order # None
    /\ oi_args.total_assets = R(100000)
    /\ oi_order[1].position_size_shares = 1666
    /\ oi_order[1].position_size_value = R(166600)
    /\ Gt(oi_order[1].position_size_value, oi_args.total_assets)

\* ------------------------------------------------ properties: watchlist
Open(m) == wl_mgr # <<>> /\ wl_mgr[m] # None

\* the last operation was an add or an update that instance m wrote to the file
Wrote(m) ==
    /\ Open(m)
    /\ \/ wl_last.op = "add" /\ wl_last.m = m
       \/ wl_last.op = "update" /\ wl_last.m = m /\ wl_last.returned

\* C17: a watchlist entry survives a process restart: after any add or update
\* through a WatchlistManager, a new WatchlistManager constructed on the same
\* file contains every ticker the first one contained, and get(ticker) returns
\* an equal config for each, for every ticker string accepted by add, whatever
\* its letter case.
C17_SurvivesRestart ==
    \A m \in Managers :
        Wrote(m) =>
            LET restarted == NewManager(wl_file)
            IN  /\ restarted.raised = "none"
                /\ \A t \in Tickers :
                       contains(wl_mgr[m][1], t) =>
                           /\ contains(restarted.stocks, t)
                           /\ get(restarted.stocks, t) = get(wl_mgr[m][1], t)

\* C18: after any sequence of load, add, update and remove on a
\* WatchlistManager, every key of the collection is an uppercase ticker, equals
\* the uppercased ticker field of the config it maps to, and no two stored
\* configs have the same uppercased ticker.
C18_UppercaseUniqueKeys ==
    \A m \in Managers :
        Open(m) =>
            LET stocks == wl_mgr[m][1]
            IN  /\ \A n \in 1..Len(stocks) :
                       /\ stocks[n].key = Upper(stocks[n].key)
                       /\ stocks[n].key = Upper(stocks[n].value.ticker)
                /\ \A n1, n2 \in 1..Len(stocks) :
                       Upper(stocks[n1].value.ticker) = Upper(stocks[n2].value.ticker)
                       => n1 = n2

\* ------------------------------------------- properties: legacy watchlist
Finished == al_pc \in {"done", "raised"}

\* a document that lists bare tickers: an array of strings, at the top or
\* under a key
FlatList(items) ==
    items.json = "array" /\ items.items # <<>>
    /\ \A n \in 1..Len(items.items) : items.items[n].json = "string"

LegacyJson ==
    \/ FlatList(al_json)
    \/ al_json.json = "object" /\ \E k \in DOMAIN al_json.members : FlatList(al_json.members[k])

JsonListed ==
    LET items == IF al_json.json = "array" THEN al_json.items
                 ELSE al_json.members[CHOOSE k \in DOMAIN al_json.members :
                                         FlatList(al_json.members[k])].items
    IN  [n \in 1..Len(items) |-> items[n].value]

\* the non-empty ticker cells of the csv, stripped and upper-cased
CsvListed == SelectSeq([n \in 1..Len(al_csv[1]) |-> Upper(Strip(al_csv[1][n]))],
                       LAMBDA t : t # "")

Defaults(listed) ==
    [n \in 1..Len(listed) |->
        [ticker |-> listed[n], name |-> "", rsi_oversold |-> 30, rsi_overbought |-> 70,
         cross_enabled |-> TRUE]]

\* C19 as stated: a watchlist stored in a legacy flat-list-of-tickers form is
\* accepted: each listed ticker is treated as a config with default settings
\* (30, 70, cross checks on) and is checked; the load neither raises nor gives
\* an empty watchlist.
C19_LegacyAccepted ==
    Finished =>
        /\ (al_path = "json" /\ LegacyJson) =>
               (al_raised = "none" /\ al_checked = Defaults(JsonListed))
        /\ (al_path = "csv" /\ al_csv # None) =>
               (al_raised = "none" /\ al_checked = Defaults(CsvListed))

\* C19: a legacy flat list of tickers is accepted only as a csv file read by
\* run_alert_check when no watchlist.json exists beside it: each non-empty
\* ticker cell, stripped and upper-cased, is treated as a config with default
\* settings (30, 70, cross checks on) and is checked, in order.  With a
\* watchlist.json beside it the csv is not read.  WatchlistManager.load accepts
\* no flat list: an array of tickers raises (AttributeError at the top,
\* TypeError under "stocks") and one under another key gives an empty watchlist.
C19_LegacyCsvOnly ==
    Finished =>
        /\ (al_path = "csv" /\ al_json = NoFile /\ al_csv # None) =>
               (al_raised = "none" /\ al_checked = Defaults(CsvListed))
        /\ (al_path = "csv" /\ al_json # NoFile) =>
               al_checked = list_all(NewManager(al_json).stocks)
        /\ (LegacyJson /\ al_json.json = "array") =>
               (al_raised = "AttributeError" /\ al_checked = <<>>)
        /\ (LegacyJson /\ al_json.json = "object" /\ "stocks" \in DOMAIN al_json.members) =>
               (al_raised = "TypeError" /\ al_checked = <<>>)
        /\ (LegacyJson /\ al_json.json = "object" /\ "stocks" \notin DOMAIN al_json.members) =>
               (al_raised = "none" /\ al_checked = <<>>)

\* a csv of two tickers, one lower-case and one padded, checked with defaults
C19_Witness ==
    /\ al_pc = "done"
    /\ al_path = "csv" /\ al_json = NoFile
    /\ al_csv = Some(<<"aapl", " MSFT ">>)
    /\ al_checked = Defaults(<<"AAPL", "MSFT">>)
    /\ \E k \in 1..Len(all_alerts) : all_alerts[k].ticker = "AAPL"

\* ------------------------------------------------ properties: indicators
Returned(fn) == in_pc = "done" /\ in_fn = Some(fn)

Short == Len(in_data) < in_window

AllRows(P(_)) == Len(in_out) = Len(in_data) /\ \A k \in 1..Len(in_data) : P(in_out[k])

BandRows(P(_)) ==
    \A c \in {"upper", "lower", "bandwidth"} :
        Len(in_out[c]) = Len(in_data) /\ \A k \in 1..Len(in_data) : P(in_out[c][k])

\* C20 as stated: for every window W and series S with len(S) < W, each of
\* calculate_sma, calculate_ema, calculate_rsi and calculate_bollinger_bands
\* returns an output in which every row is the undefined marker.
C20_ShortAllUndefined ==
    (in_pc = "done" /\ Short) =>
        /\ in_fn # Some("calculate_bollinger_bands") => AllRows(IsNaN)
        /\ in_fn = Some("calculate_bollinger_bands") =>
               /\ BandRows(SurdNaN)
               /\ \A k \in 1..Len(in_data) : IsNaN(in_out.middle[k])

\* C20: for every window W and series S with len(S) < W, calculate_sma,
\* calculate_rsi and calculate_bollinger_bands (middle, upper, lower and
\* bandwidth) return without error an output in which every row is the
\* undefined marker; calculate_ema also returns without error, but its output
\* is defined at every row (the first row is the first price).
C20_ShortUndefinedButEma ==
    (in_pc = "done" /\ Short) =>
        /\ in_fn \in {Some("calculate_sma"), Some("calculate_rsi")} => AllRows(IsNaN)
        /\ in_fn = Some("calculate_bollinger_bands") =>
               /\ BandRows(SurdNaN)
               /\ \A k \in 1..Len(in_data) : IsNaN(in_out.middle[k])
        /\ in_fn = Some("calculate_ema") =>
               /\ AllRows(LAMBDA x : ~IsNaN(x))
               /\ in_data # <<>> => in_out[1] = in_data[1]

\* an RSI over a series one row shorter than its window
C20_Witness ==
    /\ Returned("calculate_rsi")
    /\ Len(in_data) >= 2
    /\ Len(in_data) = in_window - 1
    /\ \A k \in 1..Len(in_data) : IsNaN(in_out[k])

\* ------------------------------------------------ properties: no look-ahead
\* series e carries the same prices as in_data on rows 1..k
AgreesUpTo(e, k) == k <= Len(e) /\ k <= Len(in_data) /\ \A j \in 1..k : e[j] = in_data[j]

\* C21: for any two price series that agree on rows 0..i, every column
\* add_all_indicators produces has the same value (or is undefined in both)
\* at row i: whatever follows row i does not reach back into it.
C21_NoLookAhead ==
    Returned("add_all_indicators") =>
        \A m \in 0..MaxLen : \A e \in Series(m) : \A k \in 1..m :
            AgreesUpTo(e, k) =>
                LET other == add_all_indicators(e)
                IN  \A col \in IndicatorColumns : other[col][k] = in_out[col][k]

\* two series part ways after a row at which the indicators are defined
C21_Witness ==
    /\ Returned("add_all_indicators")
    /\ Len(in_data) = MaxLen
    /\ ~IsNaN(in_out.SMA_75[LongWindow])
    /\ ~IsNaN(in_out.RSI[LongWindow])
    /\ \E e \in Series(MaxLen) :
          /\ AgreesUpTo(e, LongWindow)
          /\ e[MaxLen] # in_data[MaxLen]
          /\ add_all_indicators(e).RSI[MaxLen] # in_out.RSI[MaxLen]

\* ----------------------------------------------------------- properties: RSI
\* the price difference of row j, which exists from the second row on
Delta(j) == RSub(in_data[j], in_data[j - 1])

\* the window ending at row k holds in_window price differences
FullWindow(k) == k > in_window /\ k <= Len(in_data)

\* no difference of that window is a loss, so that its average loss is 0
LossFree(k) == \A j \in (k - in_window + 1)..k : Ge(Delta(j), R(0))

\* C25: whenever the average loss over the RSI window is 0, calculate_rsi
\* yields RSI = 100 at that row, never an undefined value, a window with no
\* price change at all included; over a strictly increasing series of
\* window + 1 points the RSI of the last point is 100.
C25_SaturatesAt100 ==
    Returned("calculate_rsi") =>
        \A k \in 1..Len(in_data) : (FullWindow(k) /\ LossFree(k)) => in_out[k] = R(100)

\* C26: calculate_rsi(data, window) is undefined at each of the first
\* `window` points (rows 0..window-1) and can be defined only from row index
\* `window` on.
C26_UndefinedForFirstWindow ==
    Returned("calculate_rsi") =>
        \A k \in 1..Len(in_data) : k <= in_window => IsNaN(in_out[k])

\* ------------------------------------------- properties: batch of alerts
\* the symbol's check fails: its fetch raises, or a comparison with a null
\* threshold raises after the frame was built
CheckFails(stock) ==
    LET fetched == al_market[Upper(stock.ticker)]
    IN  \/ fetched = None
        \/ CompareRaises(fetched[1], stock.rsi_oversold)
        \/ CompareRaises(fetched[1], stock.rsi_overbought)

\* the alert types a symbol whose check does not fail must produce, from its
\* frame d and settings
DueOf(stock, d) ==
    LET n    == Rows(d)
        rsi  == d.RSI[n]
        both == n >= 2 /\ \A k \in {n - 1, n} : ~IsNaN(d.SMA_25[k]) /\ ~IsNaN(d.SMA_75[k])
    IN  {t \in {"golden_cross"} :
            /\ stock.cross_enabled /\ both
            /\ Gt(d.SMA_25[n], d.SMA_75[n]) /\ Le(d.SMA_25[n - 1], d.SMA_75[n - 1])}
        \cup {t \in {"dead_cross"} :
            /\ stock.cross_enabled /\ both
            /\ Lt(d.SMA_25[n], d.SMA_75[n]) /\ Ge(d.SMA_25[n - 1], d.SMA_75[n - 1])}
        \cup {t \in {"rsi_oversold"} : ~IsNaN(rsi) /\ Lt(rsi, R(stock.rsi_oversold))}
        \cup {t \in {"rsi_overbought"} : ~IsNaN(rsi) /\ Gt(rsi, R(stock.rsi_overbought))}

Due(stock) == DueOf(stock, al_market[Upper(stock.ticker)][1])

AlertsOf(ticker) == SelectSeq(all_alerts, LAMBDA a : a.ticker = ticker)

\* C22: in run_alert_check a failed fetch or computation for one watchlist
\* symbol is not fatal to the batch: check_stock returns for that symbol
\* without raising, every remaining symbol is still checked in order, and the
\* alerts of the other symbols are all present in the returned list.
C22_FailureNotFatal ==
    /\ (al_pc = "raised") => al_i = 0
    /\ (al_pc = "done" /\ al_raised = "none") =>
          /\ al_checked = al_stocks
          /\ \A k \in 1..Len(al_stocks) :
                ~CheckFails(al_stocks[k]) =>
                    {a.alert_type : a \in Range(AlertsOf(al_stocks[k].ticker))}
                        = Due(al_stocks[k])

\* the first symbol's check fails and the second symbol's alert is returned
C22_Witness ==
    /\ al_pc = "done"
    /\ Len(al_stocks) = 2
    /\ CheckFails(al_stocks[1])
    /\ ~CheckFails(al_stocks[2])
    /\ al_checked = al_stocks
    /\ AlertsOf(al_stocks[2].ticker) # <<>>

\* ------------------------------------- properties: undefined rows in scans
\* the two series a crossover scan compares, and the events it emits
ScanPair ==
    IF sg_call[1].fn = "detect_ma_crossovers"
    THEN [a |-> sg_call[1].short_ma, b |-> sg_call[1].long_ma,
          types |-> {"golden_cross", "dead_cross"}]
    ELSE [a |-> "MACD", b |-> "MACD_Signal", types |-> {"macd_bullish", "macd_bearish"}]

BothAt(k) == Defined(ScanPair.a, k) /\ Defined(ScanPair.b, k)

Silent(k) == \A t \in ScanPair.types : Emitted(t, k) = {}

\* C23: in the MA and MACD crossover scans a row where either series is
\* undefined produces no event and does not serve as the previous state: the
\* first row at which both series are defined never emits a crossover, and a
\* window in which one series is undefined on every row emits no event at all.
C23_UndefinedRowsSkipped ==
    (Called("detect_ma_crossovers") \/ Called("detect_macd_signals")) =>
        /\ \A k \in 1..Rows(frame) : ~BothAt(k) => Silent(k)
        /\ \A k \in 1..Rows(frame) :
              (BothAt(k) /\ \A j \in 1..(k - 1) : ~BothAt(j)) => Silent(k)
        /\ (\E c \in {ScanPair.a, ScanPair.b} : \A k \in 1..Rows(frame) : ~Defined(c, k)) =>
               \A k \in 1..Rows(frame) : Silent(k)

\* ------------------------------------ properties: alert and detector cross
\* SMA_25 > SMA_75 at row k of frame d, both defined
Sma25Above(d, k) == Gt(d.SMA_25[k], d.SMA_75[k])

FourDefined(d) ==
    \A k \in {Rows(d) - 1, Rows(d)} : ~IsNaN(d.SMA_25[k]) /\ ~IsNaN(d.SMA_75[k])

C24_CheckStep ==
    (al_pc = "loop" /\ al_i' = al_i + 1) =>
        LET stock   == al_stocks[al_i + 1]
            fetched == al_market[Upper(stock.ticker)]
        IN  (fetched # None /\ stock.cross_enabled /\ Rows(fetched[1]) >= 2) =>
                LET d      == fetched[1]
                    n      == Rows(d)
                    golden == FourDefined(d) /\ ~Sma25Above(d, n - 1) /\ Sma25Above(d, n)
                    dead   == FourDefined(d) /\ Sma25Above(d, n - 1) /\ ~Sma25Above(d, n)
                IN  /\ NewOfType("golden_cross") = IF golden THEN 1 ELSE 0
                    /\ NewOfType("dead_cross") = IF dead THEN 1 ELSE 0

\* C24: for every pair of latest/second-latest rows in which all four
\* SMA_25/SMA_75 values are defined (equality included), check_golden_cross /
\* check_dead_cross fire exactly when the MA-crossover rule of the Signal
\* Detector (the transition of SMA_25 > SMA_75 between the two rows) yields
\* golden_cross / dead_cross at the latest row; if any of the four values is
\* undefined, neither fires.
C24_SameTransitionRule == [][C24_CheckStep]_vars

\* ------------------------------------------ properties: concurrent writers
\* the ticker fields of the configs an instance holds, and of those a written
\* file lists
Held(stocks) == {stocks[n].value.ticker : n \in 1..Len(stocks)}

Listed(file) ==
    {file.members.stocks.items[n].members.ticker :
        n \in 1..Len(file.members.stocks.items)}

\* this step is an add, update or remove of instance m that saved
Saves(m) ==
    /\ Open(m)
    /\ wl_ops' = wl_ops + 1
    /\ wl_last'.op \in {"add", "update", "remove"}
    /\ wl_last'.m = m
    /\ wl_last'.op # "add" => wl_last'.returned

C27_SaveStep ==
    \A m \in Managers :
        Saves(m) =>
            /\ wl_file' = save(wl_mgr'[m][1])
            /\ Listed(wl_file') = Held(wl_mgr'[m][1])
            /\ Held(wl_mgr'[m][1]) \subseteq
                   Held(wl_mgr[m][1])
                   \cup (IF wl_last'.op = "add" THEN {wl_last'.stock.ticker} ELSE {})
            /\ \A o \in Managers \ {m} : wl_mgr'[o] = wl_mgr[o]

\* C27: with two WatchlistManager instances opened on the same file before
\* either writes, interleaved mutations are last-writer-wins: after instance A
\* adds ticker X and then instance B adds ticker Y, the file holds exactly B's
\* in-memory collection and X is lost; each save overwrites the whole file
\* from the writer's own memory without re-reading it.
C27_LastWriterWins == [][C27_SaveStep]_vars

\* A and B opened an empty watchlist, A added AAPL with its own thresholds,
\* then B added MSFT: the file lists MSFT alone
C27_Witness ==
    /\ wl_ops = 4
    /\ Open("A") /\ Open("B")
    /\ wl_last.op = "add" /\ wl_last.m = "B" /\ wl_last.stock.ticker = "MSFT"
    /\ Held(wl_mgr["A"][1]) = {"AAPL"}
    /\ get(wl_mgr["A"][1], "AAPL")[1].rsi_oversold = 40
    /\ Held(wl_mgr["B"][1]) = {"MSFT"}
    /\ Listed(wl_file) = {"MSFT"}

\* ------------------------------------------------- properties: the ledger
\* trade t is closed, not before it was opened
Closed(t) ==
    /\ t.exit_date # None
    /\ t.exit_price # None
    /\ t.entry_date <= t.exit_date[1]

\* a ledger of closed trades in chronological order, each exited strictly
\* before the next is entered
WellFormed(ledger) ==
    /\ \A n \in 1..Len(ledger) : Closed(ledger[n])
    /\ \A n \in 1..(Len(ledger) - 1) : ledger[n].exit_date[1] < ledger[n + 1].entry_date

\* C28: every ledger returned by run_backtest_single is well formed: each
\* Trade has both exit_date and exit_price set, entry_date <= exit_date, trades
\* appear in chronological order and consecutive trades do not overlap (the
\* exit date of trade n is strictly before the entry date of trade n+1); a bar
\* that closes a trade never opens another one, so while the scan runs the
\* open trade was entered after the last exit.
C28_LedgerWellFormed ==
    /\ (pc = "done" /\ result # None) =>
           /\ result[1].trades = trades
           /\ WellFormed(result[1].trades)
    /\ pc = "scan" =>
           /\ WellFormed(trades)
           /\ (trades # <<>> /\ current_trade # None) =>
                  Last(trades).exit_date[1] < current_trade[1].entry_date

\* a returned ledger of two trades, the second of which was opened and closed
\* after the first was closed by a dead cross
C28_Witness ==
    /\ pc = "done"
    /\ result # None
    /\ Len(result[1].trades) = 2
    /\ result[1].trades[1].exit_date[1] < Len(history)
    /\ result[1].trades[2].entry_date > result[1].trades[1].exit_date[1]

\* --------------------------------------- properties: symbols without a trade
\* the sum of the prices of rows lo..hi of a fetched series
PriceSum(h, lo, hi) == SumRange(h, lo, hi)[1]

\* SMA_25 > SMA_75 at row k of series h (sums cross-multiplied)
ShortAbove(h, k) ==
    /\ k >= LongWindow
    /\ PriceSum(h, k - ShortWindow + 1, k) * LongWindow
           > PriceSum(h, k - LongWindow + 1, k) * ShortWindow

\* a golden cross at row k: both averages defined at k and at k - 1
GoldenAt(h, k) == k > LongWindow /\ ShortAbove(h, k) /\ ~ShortAbove(h, k - 1)

\* ticker k has enough bars, and no golden cross on any of them
NoEntry(k) ==
    /\ ~market[k].raises
    /\ Len(market[k].history) >= MinBars
    /\ \A j \in 1..Len(market[k].history) : ~GoldenAt(market[k].history, j)

\* C29: a symbol with at least MinBars bars on which no golden cross ever
\* opens a trade yields None from run_backtest_single, not a BacktestResult
\* with zero trades, and run_backtest_portfolio counts it in
\* stocks_with_errors like any failure; in every non-error portfolio result
\* stocks_analyzed + stocks_with_errors = min(len(tickers), max_stocks), and
\* the result is the error dict exactly when no symbol produced a result.
C29_NoTradeIsAnError ==
    /\ \A k \in DOMAIN market :
          NoEntry(k) =>
              RunBacktestSingle(k, market[k]) = [result |-> None, outcome |-> "returned"]
    /\ pf_pc = "done" =>
          /\ DOMAIN output[1] = {"error"} <=> \A k \in Attempted : ~Yields(k)
          /\ "error" \notin DOMAIN output[1] =>
                LET sm == output[1].summary
                IN  /\ sm.stocks_with_errors =
                           Cardinality({k \in Attempted : Failed(k) \/ Skipped(k) \/ NoEntry(k)})
                    /\ sm.stocks_analyzed + sm.stocks_with_errors
                           = Min(Len(market), max_stocks)
                    /\ sm.stocks_analyzed = Len(output[1].all_results)
                    /\ \A m \in 1..Len(output[1].all_results) :
                           output[1].all_results[m].total_trades >= 1

\* a finished run with a result for one symbol and none for a symbol whose
\* prices never cross
C29_Witness ==
    /\ pf_pc = "done"
    /\ "summary" \in DOMAIN output[1]
    /\ \E a, b \in Attempted : NoEntry(a) /\ Yields(b)
    /\ output[1].summary.stocks_with_errors >= 1

\* ------------------------------------------------------ properties: polls
AlertTypes == {"golden_cross", "dead_cross", "rsi_oversold", "rsi_overbought"}

\* how many notifications of that symbol and type run p of job sent
SentAt(p, ticker, type) ==
    Cardinality({n \in 1..Len(sc_sent[p]) :
                    sc_sent[p][n] = [ticker |-> ticker, alert_type |-> type]})

\* the alert is called for at run p: by the frame fetched at that run and the
\* settings read at that run, nothing else
DueAt(p, stock, type) ==
    LET fetched == sc_polls[p].fetches[Upper(stock.ticker)]
    IN  fetched # None /\ type \in DueOf(stock, fetched[1])

\* C30: the Alert Evaluator keeps no state between polls: on every scheduler
\* run in which a symbol's latest RSI is beyond its threshold an rsi_oversold /
\* rsi_overbought alert is emitted and sent again, so a condition that
\* persists over k consecutive polls produces k alerts, whereas a
\* golden_cross / dead_cross alert is sent only on polls whose last two rows
\* contain the crossing.
C30_NoStateBetweenPolls ==
    /\ Len(sc_sent) = Len(sc_polls)
    /\ \A p \in 1..Len(sc_polls) :
          LET m == NewManager(sc_polls[p].json)
          IN  IF m.raised # "none" THEN sc_sent[p] = <<>>
              ELSE /\ \A n \in 1..Len(m.stocks) : \A type \in AlertTypes :
                         SentAt(p, m.stocks[n].value.ticker, type)
                             = IF DueAt(p, m.stocks[n].value, type) THEN 1 ELSE 0
                   /\ \A n \in 1..Len(sc_sent[p]) :
                         /\ contains(m.stocks, sc_sent[p][n].ticker)
                         /\ sc_sent[p][n].alert_type \in AlertTypes

\* three polls: MSFT is oversold at each and its alert is sent three times;
\* AAPL's averages cross on the last two rows of the first poll only and its
\* golden_cross is sent once
C30_Witness ==
    /\ Len(sc_polls) = MaxPolls
    /\ MaxPolls >= 3
    /\ \A p \in 1..MaxPolls : SentAt(p, "MSFT", "rsi_oversold") = 1
    /\ sc_polls[1].fetches["AAPL"] = Some(GoldenFrame)
    /\ SentAt(1, "AAPL", "golden_cross") = 1
    /\ \A p \in 2..MaxPolls :
          /\ sc_polls[p].fetches["AAPL"] # None
          /\ Gt(Last(sc_polls[p].fetches["AAPL"][1].SMA_25),
                Last(sc_polls[p].fetches["AAPL"][1].SMA_75))
          /\ SentAt(p, "AAPL", "golden_cross") = 0

====
